---- MODULE Spec2Model ----
(***************************************************************************)
(* Session correlation registry of the Langfuse tracer                     *)
(* (toolkit/packages/utilities/hooks/utils/langfuse/tracer.py).            *)
(*                                                                         *)
(* The shared state is the file system under ~/.claude/langfuse: one       *)
(* record file per session, one index file, one advisory lock file per     *)
(* lock name.  Every hook invocation is an OS process that runs one        *)
(* operation of SessionRegistry, one statement group at a time, and then   *)
(* exits.  Processes interleave between statement groups.                  *)
(***************************************************************************)
EXTENDS Integers, Sequences, FiniteSets, TLC

\* ------------------------------------------------------------------ bounds
\* Largest process id of the concurrent specifications.
NProc == 2
\* The clock runs from 0 to MaxTime (hours).
MaxTime == 3
\* Span ids handed to add_pending_span are 1..MaxSpan, each used once.
MaxSpan == 3
\* The last instant of the clock where progress is checked.
LiveTime == 1
SweepTime == 5

\* ------------------------------------------------------------- value sets
Sids == {"s1", "s2"}
\* Every session id a record file or a lock file can be named after.
AllSids == Sids \cup {"s3"}
Cwds == {"/a", "/b"}
Ppids == {100, 200}
ToolNames == {"Bash", "Read"}
\* max_age_hours values the sweep is called with
MaxAges == {0, 1}

SeqProcs == {1}
ConcProcs == 1..NProc

\* ----------------------------------------------------------------- store
\* _hash_cwd: md5(path)[:8]; the two directories of the model hash apart.
HashCwd(cwd) == IF cwd = "/a" THEN "h_a" ELSE "h_b"

Hashes == {HashCwd(c) : c \in Cwds}

\* What _load_session yields for a missing file (None).
Absent ==
    [session_id |-> "none", trace_id |-> "none", last_activity |-> 0,
     cwd_hash |-> "none", ppid |-> 0, status |-> "absent",
     pending_spans |-> <<>>]

\* The content of a record file that open(path, 'w') has truncated and
\* json.dump has not finished writing: not valid JSON.
Torn == [Absent EXCEPT !.status = "torn"]

\* The content of a record file whose bytes cannot be decoded as text:
\* open(path, 'r') / json.load raise UnicodeDecodeError, which is neither a
\* JSONDecodeError nor an IOError.
Garbled == [Absent EXCEPT !.status = "garbled"]

\* _load_json / _load_session: a file that does not parse yields {}, which
\* every caller treats like a missing record (if session: / if not session).
LoadJson(content) == IF content = Torn THEN Absent ELSE content

\* What pop_pending_span yields when nothing matches (None).
NoSpan == [span_id |-> 0, tool_name |-> "none"]

\* What _load_index yields for a missing index file ({}): no keys at all,
\* read everywhere through .get(key, {}) / .get(hash, []).
EmptyIndex ==
    [cwd_to_sessions |-> [h \in Hashes |-> <<>>],
     ppid_to_session |-> [pp \in Ppids |-> "none"]]

\* The record register_session builds (created_at, cwd and git_branch are
\* written and never read back by the registry; they are left out).
NewSession(sid, trace, cwd, ppid, t) ==
    [session_id |-> sid, trace_id |-> trace, last_activity |-> t,
     cwd_hash |-> HashCwd(cwd), ppid |-> ppid, status |-> "active",
     pending_spans |-> <<>>]

InSeq(x, s) == \E i \in 1..Len(s) : s[i] = x

\* An index update that appends without looking.
RegisterIndexAppends(idx, h, ppid, sid) ==
    [cwd_to_sessions |-> [idx.cwd_to_sessions EXCEPT ![h] = Append(@, sid)],
     ppid_to_session |-> [idx.ppid_to_session EXCEPT ![ppid] = sid]]

\* register_session's index update.
RegisterIndex(idx, h, ppid, sid) ==
    [cwd_to_sessions |->
        [idx.cwd_to_sessions EXCEPT
            ![h] = IF InSeq(sid, @) THEN @ ELSE Append(@, sid)],
     ppid_to_session |-> [idx.ppid_to_session EXCEPT ![ppid] = sid]]

\* An index update that keeps the session a parent id already maps to.
ReactivateIndexKeep(idx, h, ppid, sid) ==
    [ppid_to_session |->
        [idx.ppid_to_session EXCEPT ![ppid] = IF @ = "none" THEN sid ELSE @],
     cwd_to_sessions |->
        [idx.cwd_to_sessions EXCEPT
            ![h] = IF InSeq(sid, @) THEN @ ELSE Append(@, sid)]]

\* An index update that moves the session: it leaves every other cwd list.
ReactivateIndexMoves(idx, h, ppid, sid) ==
    [ppid_to_session |-> [idx.ppid_to_session EXCEPT ![ppid] = sid],
     cwd_to_sessions |->
        [g \in Hashes |->
            IF g = h
            THEN IF InSeq(sid, idx.cwd_to_sessions[g])
                 THEN idx.cwd_to_sessions[g]
                 ELSE Append(idx.cwd_to_sessions[g], sid)
            ELSE SelectSeq(idx.cwd_to_sessions[g], LAMBDA x : x # sid)]]

\* reactivate_session's index update.
ReactivateIndex(idx, h, ppid, sid) ==
    [ppid_to_session |-> [idx.ppid_to_session EXCEPT ![ppid] = sid],
     cwd_to_sessions |->
        [idx.cwd_to_sessions EXCEPT
            ![h] = IF InSeq(sid, @) THEN @ ELSE Append(@, sid)]]

\* list.remove(x): drops the first occurrence of x.
RECURSIVE RemoveFirst(_, _)
RemoveFirst(s, x) ==
    IF s = <<>> THEN <<>>
    ELSE IF Head(s) = x THEN Tail(s)
    ELSE <<Head(s)>> \o RemoveFirst(Tail(s), x)

\* _remove_session's index update: the session leaves every cwd list (an
\* emptied list's key is deleted, which reads back as the empty list) and
\* every ppid entry that names it.
\* A purge that forgets the ppid map.
PurgeIndexCwdOnly(idx, sid) ==
    [cwd_to_sessions |->
        [h \in Hashes |-> RemoveFirst(idx.cwd_to_sessions[h], sid)],
     ppid_to_session |-> idx.ppid_to_session]

PurgeIndex(idx, sid) ==
    [cwd_to_sessions |->
        [h \in Hashes |-> RemoveFirst(idx.cwd_to_sessions[h], sid)],
     ppid_to_session |->
        [pp \in Ppids |->
            IF idx.ppid_to_session[pp] = sid THEN "none"
            ELSE idx.ppid_to_session[pp]]]

\* An update without the last_activity bump.
UpdatedSessionNoBump(s, status, t) ==
    [s EXCEPT !.status = IF status = "keep" THEN @ ELSE status]

\* An update that also revives the record.
UpdatedSessionRevive(s, status, t) ==
    [s EXCEPT !.status = IF status = "keep" THEN "active" ELSE status,
              !.last_activity = t]

\* update_session: session.update(updates), then the last_activity bump.
\* The registry only ever passes status=... or nothing.
UpdatedSession(s, status, t) ==
    [s EXCEPT !.status = IF status = "keep" THEN @ ELSE status,
              !.last_activity = t]

\* An add that puts the new span first.
AddedSpanFront(s, span, tool, t) ==
    [s EXCEPT !.pending_spans = <<[span_id |-> span, tool_name |-> tool]>> \o @,
              !.last_activity = t]

\* add_pending_span: append and bump.
AddedSpan(s, span, tool, t) ==
    [s EXCEPT !.pending_spans = Append(@, [span_id |-> span, tool_name |-> tool]),
              !.last_activity = t]

\* A scan that takes the newest match instead of the oldest.
PopIndexLast(pending, tool) ==
    IF \E i \in 1..Len(pending) : pending[i].tool_name = tool
    THEN CHOOSE i \in 1..Len(pending) :
            /\ pending[i].tool_name = tool
            /\ \A j \in (i + 1)..Len(pending) : pending[j].tool_name # tool
    ELSE 0

\* pop_pending_span's scan: the first position whose tool_name matches, 0
\* when there is none.
PopIndex(pending, tool) ==
    IF \E i \in 1..Len(pending) : pending[i].tool_name = tool
    THEN CHOOSE i \in 1..Len(pending) :
            /\ pending[i].tool_name = tool
            /\ \A j \in 1..(i - 1) : pending[j].tool_name # tool
    ELSE 0

\* list.pop(i)
RemoveAt(s, i) == SubSeq(s, 1, i - 1) \o SubSeq(s, i + 1, Len(s))

\* pop_pending_span's write.
PoppedSession(s, i, t) ==
    [s EXCEPT !.pending_spans = RemoveAt(@, i), !.last_activity = t]

\* reactivate_session's record update.
ReactivatedSession(s, cwd, ppid, t) ==
    [s EXCEPT !.status = "active", !.ppid = ppid,
              !.cwd_hash = HashCwd(cwd), !.last_activity = t]

\* cleanup_stale_sessions' decision on one record it has read.
SweepDecision(s, sweepNow, maxAge) ==
    IF s.status = "active" /\ sweepNow - s.last_activity > maxAge
        THEN "stale"
    ELSE IF s.status \in {"stopped", "stale"}
            /\ sweepNow - s.last_activity > maxAge * 2
        THEN "remove"
    ELSE "skip"

\* A last resort that takes the first session loaded.
MostRecentFirst(acc) == acc[1]

\* find_session_for_tool's last resort, max(active_sessions, key=last_activity):
\* the first of the entries with the greatest last_activity.
MostRecent(acc) ==
    acc[CHOOSE i \in 1..Len(acc) :
            /\ \A j \in 1..Len(acc) : acc[j].last_activity <= acc[i].last_activity
            /\ \A j \in 1..(i - 1) : acc[j].last_activity < acc[i].last_activity]

\* A choice that takes the session listed last when no parent id matches.
PickSessionLast(acc, ppid) ==
    IF acc = <<>> THEN Absent
    ELSE IF \E i \in 1..Len(acc) : acc[i].ppid = ppid
        THEN acc[CHOOSE i \in 1..Len(acc) :
                    /\ acc[i].ppid = ppid
                    /\ \A j \in 1..(i - 1) : acc[j].ppid # ppid]
    ELSE acc[Len(acc)]

\* find_session_for_tool's choice among the active sessions it loaded for
\* the caller's cwd, in index order.
PickSession(acc, ppid) ==
    IF acc = <<>> THEN Absent
    ELSE IF Len(acc) = 1 THEN acc[1]
    ELSE IF \E i \in 1..Len(acc) : acc[i].ppid = ppid
        THEN acc[CHOOSE i \in 1..Len(acc) :
                    /\ acc[i].ppid = ppid
                    /\ \A j \in 1..(i - 1) : acc[j].ppid # ppid]
    ELSE MostRecent(acc)

\* ------------------------------------------------------------------ state
VARIABLES
    files,      \* sessions/<session_id>.json: the record, or Absent
    index,      \* sessions/index.json
    lockGen,    \* locks/<session_id>.lock: which inode the path names now
    now,        \* the wall clock
    nextSpan,   \* the next span id the backend hands out
    proc,       \* each process: its call, its position, its locals, its fds
    prev        \* the call that completed last (history, sequential runs)

vars == <<files, index, lockGen, now, nextSpan, proc, prev>>

\* A file descriptor on a session lock file: the lock's name, the inode the
\* path named when it was opened, and whether flock has been granted.
NoFd == [name |-> "none", gen |-> 0, held |-> FALSE]

\* What a coordinator operation returns: nothing yet, None, the "noop"
\* sentinel, a trace id or a span id.
NoResult == [kind |-> "none", trace |-> "none", span |-> 0]
Nothing == [kind |-> "nothing", trace |-> "none", span |-> 0]
Noop == [kind |-> "noop", trace |-> "none", span |-> 0]
TraceResult(t) == [kind |-> "trace", trace |-> t, span |-> 0]
SpanResult(n) == [kind |-> "span", trace |-> "none", span |-> n]

\* A process: the registry call it is in (name, pc, locals, descriptors) and,
\* when that call was made by a coordinator operation, the operation (op),
\* its source argument, the backend calls it has made so far (log), whether
\* an exception reached its handler (failed), whether an exception left the
\* call (raised), whether the process has a backend client (enabled), and
\* the operation's result (cret).
Idle ==
    [pc |-> "idle", name |-> "none", sid |-> "none", tool |-> "none",
     cwd |-> "none", ppid |-> 0, trace |-> "none", span |-> 0, maxAge |-> 0,
     t0 |-> 0, sess |-> Absent, lidx |-> EmptyIndex, todo |-> <<>>,
     acc |-> <<>>, ret |-> Absent, rspan |-> NoSpan, rtrace |-> "none",
     sfd |-> NoFd, ifd |-> FALSE,
     op |-> "none", src |-> "none", log |-> <<>>, failed |-> FALSE,
     raised |-> FALSE, enabled |-> TRUE, cret |-> NoResult]

\* What is remembered of a completed call: its arguments, its result and,
\* for reactivate_session, the status of the record it found, for a sweep its
\* threshold and clock reading, for start_tool_span the span it opened.
NoCall ==
    [name |-> "none", sid |-> "none", tool |-> "none", cwd |-> "none",
     ppid |-> 0, ret |-> Absent, rspan |-> NoSpan, rtrace |-> "none",
     was |-> "none", age |-> 0, at |-> 0, span |-> 0, cret |-> NoResult]

CallOf(r) ==
    [name |-> r.name, sid |-> r.sid, tool |-> r.tool, cwd |-> r.cwd,
     ppid |-> r.ppid, ret |-> r.ret, rspan |-> r.rspan, rtrace |-> r.rtrace,
     was |-> IF r.name = "reactivate_session" THEN r.sess.status ELSE "none",
     age |-> IF r.name = "cleanup_stale_sessions" THEN r.maxAge ELSE 0,
     at |-> IF r.name = "cleanup_stale_sessions" THEN r.t0 ELSE 0,
     span |-> IF r.name = "start_tool_span" THEN r.span ELSE 0,
     cret |-> r.cret]

Init ==
    /\ files = [s \in AllSids |-> Absent]
    /\ index = EmptyIndex
    /\ lockGen = [s \in AllSids |-> 0]
    /\ now = 0
    /\ nextSpan = 1
    /\ proc = [p \in ConcProcs |-> Idle]
    /\ prev = NoCall

\* ------------------------------------------------------------------ locks
\* os.open(lock_file, O_RDWR | O_CREAT): a descriptor on whichever inode the
\* path names now.
OpenLock(sid) == [name |-> sid, gen |-> lockGen[sid], held |-> FALSE]

\* flock(fd, LOCK_EX) returns once no other open file description holds a
\* lock on the same inode.
SessionLockFree(p) ==
    \A q \in DOMAIN proc \ {p} :
        ~(/\ proc[q].sfd.held
          /\ proc[q].sfd.name = proc[p].sfd.name
          /\ proc[q].sfd.gen = proc[p].sfd.gen)

IndexLockFree(p) == \A q \in DOMAIN proc \ {p} : ~proc[q].ifd

\* The inode a session lock path names after lock_file.unlink() and the next
\* O_CREAT: one no descriptor in use refers to.  Unlinking a file that no
\* process has open is not observable and leaves the name as it is.
FreshGen(sid) ==
    IF \E q \in DOMAIN proc : proc[q].sfd.name = sid /\ proc[q].sfd.gen = lockGen[sid]
    THEN CHOOSE g \in 0..Cardinality(DOMAIN proc) :
            /\ \A q \in DOMAIN proc : ~(proc[q].sfd.name = sid /\ proc[q].sfd.gen = g)
            /\ \A k \in 0..(g - 1) :
                  \E q \in DOMAIN proc : proc[q].sfd.name = sid /\ proc[q].sfd.gen = k
    ELSE lockGen[sid]

\* -------------------------------------------------------------- processes
Become(p, r) == proc' = [proc EXCEPT ![p] = r]

IsIdle(p) == proc[p].pc = "idle"

\* The status update_session is called with: mark_session_stopped passes
\* "stopped", the sweep "stale", update_session_activity nothing.
StatusArg(name) ==
    IF name = "mark_session_stopped" THEN "stopped"
    ELSE IF name = "cleanup_stale_sessions" THEN "stale"
    ELSE "keep"

\* Where a call goes once flock has returned.
AfterFlock(name) == IF name = "register_session" THEN "reg_save" ELSE "load"

\* Where a call goes once it has loaded its record under the lock.
AfterLoad(name) ==
    IF name = "add_pending_span" THEN "add_save"
    ELSE IF name = "pop_pending_span" THEN "pop_save"
    ELSE IF name = "reactivate_session" THEN "react_save"
    ELSE "upd_save"

\* register_session up to os.open of the session lock: cwd, ppid and the
\* timestamp are taken before the lock is asked for.
StartRegister(p, U) ==
    /\ IsIdle(p)
    /\ \E sid \in U.sids, trace \in U.traces, cwd \in U.cwds, ppid \in U.ppids :
         Become(p, [Idle EXCEPT !.pc = "flock", !.name = "register_session",
                                !.sid = sid, !.trace = trace, !.cwd = cwd,
                                !.ppid = ppid, !.t0 = now,
                                !.sfd = OpenLock(sid)])
    /\ UNCHANGED <<files, index, lockGen, now, nextSpan, prev>>

\* update_session_activity / mark_session_stopped up to os.open.
StartUpdate(p, U) ==
    /\ IsIdle(p)
    /\ \E sid \in U.sids, name \in {"update_session", "mark_session_stopped"} :
         Become(p, [Idle EXCEPT !.pc = "flock", !.name = name, !.sid = sid,
                                !.sfd = OpenLock(sid)])
    /\ UNCHANGED <<files, index, lockGen, now, nextSpan, prev>>

\* add_pending_span up to os.open; the span id is the backend's next one.
StartAdd(p, U) ==
    /\ IsIdle(p)
    /\ nextSpan <= MaxSpan
    /\ \E sid \in U.sids, tool \in U.tools :
         Become(p, [Idle EXCEPT !.pc = "flock", !.name = "add_pending_span",
                                !.sid = sid, !.tool = tool, !.span = nextSpan,
                                !.sfd = OpenLock(sid)])
    /\ nextSpan' = nextSpan + 1
    /\ UNCHANGED <<files, index, lockGen, now, prev>>

\* pop_pending_span up to os.open.
StartPop(p, U) ==
    /\ IsIdle(p)
    /\ \E sid \in U.sids, tool \in U.tools :
         Become(p, [Idle EXCEPT !.pc = "flock", !.name = "pop_pending_span",
                                !.sid = sid, !.tool = tool,
                                !.sfd = OpenLock(sid)])
    /\ UNCHANGED <<files, index, lockGen, now, nextSpan, prev>>

\* reactivate_session up to os.open.
StartReactivate(p, U) ==
    /\ IsIdle(p)
    /\ \E sid \in U.sids, cwd \in U.cwds, ppid \in U.ppids :
         Become(p, [Idle EXCEPT !.pc = "flock", !.name = "reactivate_session",
                                !.sid = sid, !.cwd = cwd, !.ppid = ppid,
                                !.sfd = OpenLock(sid)])
    /\ UNCHANGED <<files, index, lockGen, now, nextSpan, prev>>

\* _acquire_lock(session_id): flock(fd, LOCK_EX) returns.
Flock(p) ==
    /\ proc[p].pc = "flock"
    /\ SessionLockFree(p)
    /\ Become(p, [proc[p] EXCEPT !.pc = AfterFlock(proc[p].name),
                                 !.sfd.held = TRUE])
    /\ UNCHANGED <<files, index, lockGen, now, nextSpan, prev>>

\* session = self._load_session(session_id), under the lock.
Load(p) ==
    /\ proc[p].pc = "load"
    /\ files[proc[p].sid] # Garbled
    /\ Become(p, [proc[p] EXCEPT !.pc = AfterLoad(proc[p].name),
                                 !.sess = LoadJson(files[proc[p].sid])])
    /\ UNCHANGED <<files, index, lockGen, now, nextSpan, prev>>

\* register_session: the record is written and the session lock released.
RegSave(p) ==
    /\ proc[p].pc = "reg_save"
    /\ files' = [files EXCEPT ![proc[p].sid] =
                    NewSession(proc[p].sid, proc[p].trace, proc[p].cwd,
                               proc[p].ppid, proc[p].t0)]
    /\ Become(p, [proc[p] EXCEPT !.pc = "idx_lock", !.sfd = NoFd])
    /\ UNCHANGED <<index, lockGen, now, nextSpan, prev>>

\* _acquire_lock("index"): open and flock of the index lock file, which is
\* never unlinked.
IdxLock(p) ==
    /\ proc[p].pc = "idx_lock"
    /\ IndexLockFree(p)
    /\ Become(p, [proc[p] EXCEPT !.pc = "idx_load", !.ifd = TRUE])
    /\ UNCHANGED <<files, index, lockGen, now, nextSpan, prev>>

\* index = self._load_index()
IdxLoad(p) ==
    /\ proc[p].pc = "idx_load"
    /\ Become(p, [proc[p] EXCEPT !.pc = "idx_save", !.lidx = index])
    /\ UNCHANGED <<files, index, lockGen, now, nextSpan, prev>>

\* register_session: the index is updated, saved, and its lock released.
RegIdxSave(p) ==
    /\ proc[p].pc = "idx_save"
    /\ proc[p].name = "register_session"
    /\ index' = RegisterIndex(proc[p].lidx, HashCwd(proc[p].cwd),
                              proc[p].ppid, proc[p].sid)
    /\ Become(p, [proc[p] EXCEPT !.pc = "done", !.ifd = FALSE])
    /\ UNCHANGED <<files, lockGen, now, nextSpan, prev>>

\* An update that writes whether or not it found a record.
UpdateSaveAlways(p) ==
    /\ proc[p].pc = "upd_save"
    /\ files' = [files EXCEPT ![proc[p].sid] =
                    UpdatedSession([proc[p].sess EXCEPT !.session_id = proc[p].sid],
                                   StatusArg(proc[p].name), now)]
    /\ Become(p, [proc[p] EXCEPT !.pc = "done", !.sfd = NoFd])
    /\ UNCHANGED <<index, lockGen, now, nextSpan, prev>>

\* update_session: the write (when the record exists) and the release.  The
\* sweep comes back to its loop, every other caller returns.
UpdateSave(p) ==
    /\ proc[p].pc = "upd_save"
    /\ files' = IF proc[p].sess # Absent
                THEN [files EXCEPT ![proc[p].sid] =
                        UpdatedSession(proc[p].sess, StatusArg(proc[p].name), now)]
                ELSE files
    /\ Become(p, [proc[p] EXCEPT
                    !.pc = IF proc[p].name = "cleanup_stale_sessions"
                           THEN "sw_next" ELSE "done",
                    !.sfd = NoFd])
    /\ UNCHANGED <<index, lockGen, now, nextSpan, prev>>

\* add_pending_span: the write (when the record exists) and the release.
AddSave(p) ==
    /\ proc[p].pc = "add_save"
    /\ files' = IF proc[p].sess # Absent
                THEN [files EXCEPT ![proc[p].sid] =
                        AddedSpan(proc[p].sess, proc[p].span, proc[p].tool, now)]
                ELSE files
    /\ Become(p, [proc[p] EXCEPT !.pc = "done", !.sfd = NoFd])
    /\ UNCHANGED <<index, lockGen, now, nextSpan, prev>>

\* pop_pending_span: scan, write when a span matched, release, return.
PopSave(p) ==
    /\ proc[p].pc = "pop_save"
    /\ LET s == proc[p].sess
           i == PopIndex(s.pending_spans, proc[p].tool)
       IN  /\ files' = IF s # Absent /\ i > 0
                       THEN [files EXCEPT ![proc[p].sid] = PoppedSession(s, i, now)]
                       ELSE files
           /\ Become(p, [proc[p] EXCEPT
                           !.pc = "done", !.sfd = NoFd,
                           !.rspan = IF s # Absent /\ i > 0
                                     THEN s.pending_spans[i] ELSE NoSpan])
    /\ UNCHANGED <<index, lockGen, now, nextSpan, prev>>

\* reactivate_session: without a record it returns None; with one it writes
\* the reactivated record and goes on to the index, the session lock held.
ReactSave(p) ==
    /\ proc[p].pc = "react_save"
    /\ IF proc[p].sess = Absent
       THEN /\ Become(p, [proc[p] EXCEPT !.pc = "done", !.sfd = NoFd])
            /\ UNCHANGED files
       ELSE /\ files' = [files EXCEPT ![proc[p].sid] =
                            ReactivatedSession(proc[p].sess, proc[p].cwd,
                                               proc[p].ppid, now)]
            /\ Become(p, [proc[p] EXCEPT !.pc = "idx_lock"])
    /\ UNCHANGED <<index, lockGen, now, nextSpan, prev>>

\* A reactivate_session that returns with the index lock still its own.
ReactReturnedHolding(r) ==
    [r EXCEPT !.pc = "done", !.sfd = NoFd, !.rtrace = r.sess.trace_id]

\* reactivate_session from the release of the index lock on: the trace id is
\* returned and the finally clause releases the session lock.
ReactReturned(r) ==
    [r EXCEPT !.pc = "done", !.ifd = FALSE, !.sfd = NoFd,
              !.rtrace = r.sess.trace_id]

\* reactivate_session when its index update raised: the release of the index
\* lock is skipped, the handler logs, the trace id is returned and the
\* finally clause releases the session lock.
ReactFailed(r) ==
    [r EXCEPT !.pc = "done", !.sfd = NoFd, !.rtrace = r.sess.trace_id]

\* reactivate_session: the index is updated and saved, the index lock
\* released, the trace id returned, and the finally clause releases the
\* session lock.
ReactIdxSave(p) ==
    /\ proc[p].pc = "idx_save"
    /\ proc[p].name = "reactivate_session"
    /\ index' = ReactivateIndex(proc[p].lidx, HashCwd(proc[p].cwd),
                                proc[p].ppid, proc[p].sid)
    /\ Become(p, ReactReturned(proc[p]))
    /\ UNCHANGED <<files, lockGen, now, nextSpan, prev>>

\* The orders in which a directory scan can yield the files of S.
Orders(S) ==
    {o \in [1..Cardinality(S) -> S] : \A i, j \in 1..Cardinality(S) : o[i] = o[j] => i = j}

\* cleanup_stale_sessions: now is read once, then the sessions directory is
\* listed (index.json skipped); the listing's order is the file system's.
StartSweep(p, U) ==
    /\ IsIdle(p)
    /\ \E maxAge \in U.ages, o \in Orders({s \in AllSids : files[s] # Absent}) :
         Become(p, [Idle EXCEPT !.pc = "sw_next",
                                !.name = "cleanup_stale_sessions",
                                !.maxAge = maxAge, !.t0 = now, !.todo = o])
    /\ UNCHANGED <<files, index, lockGen, now, nextSpan, prev>>

\* The sweep's loop body up to its decision: the next file is read with no
\* lock held.  A file that is gone by now, does not parse or cannot be
\* decoded (the loop's handler) is skipped; a record to mark stale
\* goes to update_session (up to its os.open), a record to delete to
\* _remove_session.
SweepRead(p) ==
    /\ proc[p].pc = "sw_next"
    /\ proc[p].todo # <<>>
    /\ LET sid == Head(proc[p].todo)
           s == LoadJson(files[sid])
           d == IF s = Absent \/ s = Garbled THEN "skip"
                ELSE SweepDecision(s, proc[p].t0, proc[p].maxAge)
       IN  Become(p, [proc[p] EXCEPT
                        !.todo = Tail(@),
                        !.sid = sid,
                        !.sess = s,
                        !.pc = IF d = "stale" THEN "flock"
                               ELSE IF d = "remove" THEN "sw_unlink"
                               ELSE "sw_next",
                        !.sfd = IF d = "stale" THEN OpenLock(sid) ELSE NoFd])
    /\ UNCHANGED <<files, index, lockGen, now, nextSpan, prev>>

\* The listing is exhausted: cleanup_stale_sessions returns.
SweepEnd(p) ==
    /\ proc[p].pc = "sw_next"
    /\ proc[p].todo = <<>>
    /\ Become(p, [proc[p] EXCEPT !.pc = "done"])
    /\ UNCHANGED <<files, index, lockGen, now, nextSpan, prev>>

\* _remove_session: the record file is unlinked.
SweepUnlink(p) ==
    /\ proc[p].pc = "sw_unlink"
    /\ files' = [files EXCEPT ![proc[p].sid] = Absent]
    /\ Become(p, [proc[p] EXCEPT !.pc = "idx_lock"])
    /\ UNCHANGED <<index, lockGen, now, nextSpan, prev>>

\* _remove_session: the session is purged from the index, the index saved
\* and its lock released.
SweepIdxSave(p) ==
    /\ proc[p].pc = "idx_save"
    /\ proc[p].name = "cleanup_stale_sessions"
    /\ index' = PurgeIndex(proc[p].lidx, proc[p].sid)
    /\ Become(p, [proc[p] EXCEPT !.pc = "sw_rmlock", !.ifd = FALSE])
    /\ UNCHANGED <<files, lockGen, now, nextSpan, prev>>

\* _remove_session: the session's lock file is unlinked.
SweepRemoveLock(p) ==
    /\ proc[p].pc = "sw_rmlock"
    /\ lockGen' = [lockGen EXCEPT ![proc[p].sid] = FreshGen(proc[p].sid)]
    /\ Become(p, [proc[p] EXCEPT !.pc = "sw_next"])
    /\ UNCHANGED <<files, index, now, nextSpan, prev>>

\* A lookup that goes to the ppid map first.
FindBegunPpidFirst(r) ==
    LET ids == index.cwd_to_sessions[HashCwd(r.cwd)]
        pps == index.ppid_to_session[r.ppid]
    IN  [r EXCEPT !.name = "find_session_for_tool",
                  !.todo = ids,
                  !.acc = <<>>,
                  !.ret = Absent,
                  !.sid = IF pps # "none" THEN pps ELSE "none",
                  !.pc = IF pps # "none" THEN "find_ppid"
                         ELSE IF ids # <<>> THEN "find_load"
                         ELSE "done"]

\* find_session_for_tool up to the index read (no lock): with no session
\* listed for the cwd it falls back to the ppid map, else it goes on to load
\* the listed sessions.
FindBegun(r) ==
    LET ids == index.cwd_to_sessions[HashCwd(r.cwd)]
        pps == index.ppid_to_session[r.ppid]
    IN  [r EXCEPT !.name = "find_session_for_tool",
                  !.todo = ids,
                  !.acc = <<>>,
                  !.ret = Absent,
                  !.sid = IF ids = <<>> THEN pps ELSE "none",
                  !.pc = IF ids # <<>> THEN "find_load"
                         ELSE IF pps # "none" THEN "find_ppid"
                         ELSE "done"]

StartFind(p, U) ==
    /\ IsIdle(p)
    /\ \E cwd \in U.cwds, ppid \in U.ppids :
         Become(p, FindBegun([Idle EXCEPT !.cwd = cwd, !.ppid = ppid]))
    /\ UNCHANGED <<files, index, lockGen, now, nextSpan, prev>>

\* A fallback that returns the mapped session whatever its status.
FindPpidAny(p) ==
    /\ proc[p].pc = "find_ppid"
    /\ Become(p, [proc[p] EXCEPT !.pc = "done", !.ret = files[proc[p].sid]])
    /\ UNCHANGED <<files, index, lockGen, now, nextSpan, prev>>

\* find_session_for_tool, ppid fallback: the mapped session is loaded and
\* returned when it is active.
FindPpid(p) ==
    /\ proc[p].pc = "find_ppid"
    /\ files[proc[p].sid] # Garbled
    /\ LET s == LoadJson(files[proc[p].sid])
       IN  Become(p, [proc[p] EXCEPT
                        !.pc = "done",
                        !.ret = IF s.status = "active" THEN s ELSE Absent])
    /\ UNCHANGED <<files, index, lockGen, now, nextSpan, prev>>

\* find_session_for_tool: the next listed session is loaded (no lock) and
\* kept when active; after the last one the choice is made and returned.
FindLoad(p) ==
    /\ proc[p].pc = "find_load"
    /\ files[Head(proc[p].todo)] # Garbled
    /\ LET s == LoadJson(files[Head(proc[p].todo)])
           acc == IF s.status = "active" THEN Append(proc[p].acc, s)
                  ELSE proc[p].acc
           rest == Tail(proc[p].todo)
       IN  Become(p, [proc[p] EXCEPT
                        !.todo = rest,
                        !.acc = acc,
                        !.pc = IF rest = <<>> THEN "done" ELSE "find_load",
                        !.ret = IF rest = <<>> THEN PickSession(acc, proc[p].ppid)
                                ELSE Absent])
    /\ UNCHANGED <<files, index, lockGen, now, nextSpan, prev>>

\* The process exits: the kernel closes its descriptors, which drops any
\* flock still held.
Exit(p) ==
    /\ proc[p].pc = "done"
    /\ proc[p].op = "none"
    /\ Become(p, Idle)
    /\ UNCHANGED <<files, index, lockGen, now, nextSpan, prev>>

\* The same in a sequential run, which remembers the call that just ended.
ExitSeq(p) ==
    /\ proc[p].pc = "done"
    /\ proc[p].op = "none"
    /\ Become(p, Idle)
    /\ prev' = CallOf(proc[p])
    /\ UNCHANGED <<files, index, lockGen, now, nextSpan>>

\* The same when the clock has moved on by the time of the next call.
ExitLater(p) ==
    /\ proc[p].pc = "done"
    /\ proc[p].op = "none"
    /\ now < MaxTime
    /\ Become(p, Idle)
    /\ prev' = CallOf(proc[p])
    /\ now' = now + 1
    /\ UNCHANGED <<files, index, lockGen, nextSpan>>

\* Time passes.
Tick ==
    /\ now < MaxTime
    /\ now' = now + 1
    /\ UNCHANGED <<files, index, lockGen, nextSpan, proc, prev>>

\* ------------------------------------------------- pending spans, one caller
\* Sessions are registered, spans added and popped, one call at a time.
SpecFifo ==
    Init /\ [][
        LET UFifo ==
                [sids |-> Sids, traces |-> {"t1"}, cwds |-> {"/a"}, ppids |-> {100},
                 tools |-> ToolNames, ages |-> {}]
            NextFifo ==
                \E p \in SeqProcs :
                    \/ StartRegister(p, UFifo) \/ StartAdd(p, UFifo) \/ StartPop(p, UFifo)
                    \/ Flock(p) \/ Load(p) \/ RegSave(p) \/ IdxLock(p) \/ IdxLoad(p)
                    \/ RegIdxSave(p) \/ AddSave(p) \/ PopSave(p) \/ ExitSeq(p)
        IN  NextFifo
    ]_vars

\* C1: pop_pending_span(session_id, tool_name) removes and returns the oldest
\* entry of that session's pending_spans whose tool_name matches, and leaves
\* every other entry, of this and of every other session, present and in its
\* original order; with no match it returns nothing and writes nothing.
PopIsFifo ==
    [][\A p \in ConcProcs :
        (proc[p].pc = "pop_save" /\ proc'[p].pc = "done") =>
            LET sid == proc[p].sid
                tool == proc[p].tool
                before == files[sid].pending_spans
                after == files'[sid].pending_spans
                r == proc'[p].rspan
            IN  /\ \A s \in Sids \ {sid} : files'[s] = files[s]
                /\ IF \E i \in 1..Len(before) : before[i].tool_name = tool
                   THEN \E i \in 1..Len(before) :
                            /\ before[i] = r
                            /\ r.tool_name = tool
                            /\ \A j \in 1..(i - 1) : before[j].tool_name # tool
                            /\ Len(after) = Len(before) - 1
                            /\ \A k \in 1..Len(after) :
                                 after[k] = IF k < i THEN before[k] ELSE before[k + 1]
                   ELSE r = NoSpan /\ files'[sid] = files[sid]]_vars

\* Two spans of one tool were added, a before b, with nothing popped in
\* between; the first pop returned a and the second, just finished, b.
PopIsFifoWitness ==
    \E p \in SeqProcs :
        /\ proc[p].pc = "done"
        /\ proc[p].name = "pop_pending_span"
        /\ prev.name = "pop_pending_span"
        /\ prev.sid = proc[p].sid
        /\ prev.tool = proc[p].tool
        /\ prev.rspan.span_id = 1
        /\ proc[p].rspan.span_id = 2

\* ------------------------------------------------ record life cycle, racing
\* Two processes register, touch, stop and reactivate sessions and sweep,
\* interleaved at every step, while time passes.
SpecLife ==
    Init /\ [][
        LET ULife ==
                [sids |-> {"s1"}, traces |-> {"t1"}, cwds |-> {"/a"}, ppids |-> {100},
                 tools |-> {}, ages |-> MaxAges]
            NextLife ==
                \/ Tick
                \/ \E p \in ConcProcs :
                    \/ StartRegister(p, ULife) \/ StartUpdate(p, ULife)
                    \/ StartReactivate(p, ULife) \/ StartSweep(p, ULife)
                    \/ Flock(p) \/ Load(p) \/ RegSave(p) \/ IdxLock(p) \/ IdxLoad(p)
                    \/ RegIdxSave(p) \/ UpdateSave(p) \/ ReactSave(p) \/ ReactIdxSave(p)
                    \/ SweepRead(p) \/ SweepEnd(p) \/ SweepUnlink(p) \/ SweepIdxSave(p)
                    \/ SweepRemoveLock(p) \/ Exit(p)
        IN  NextLife
    ]_vars

\* -------------------------------------------- correlation, one call at a time
\* Sessions are registered, stopped, reactivated and looked up from two
\* directories and two parent processes, one call at a time.
SpecFind ==
    Init /\ [][
        LET UFind ==
                [sids |-> Sids, traces |-> {"t1"}, cwds |-> Cwds, ppids |-> Ppids,
                 tools |-> {}, ages |-> {}]
            NextFind ==
                \E p \in SeqProcs :
                    \/ StartRegister(p, UFind) \/ StartUpdate(p, UFind)
                    \/ StartReactivate(p, UFind) \/ StartFind(p, UFind)
                    \/ Flock(p) \/ Load(p) \/ RegSave(p) \/ IdxLock(p) \/ IdxLoad(p)
                    \/ RegIdxSave(p) \/ UpdateSave(p) \/ ReactSave(p) \/ ReactIdxSave(p)
                    \/ FindPpid(p) \/ FindLoad(p) \/ ExitSeq(p)
        IN  NextFind
    ]_vars

\* C2: after register_session(session_id, ...) from a (cwd, ppid) context,
\* find_session_for_tool called next from the same cwd and ppid returns the
\* record of that session_id, whatever other sessions the registry holds.
RegisterThenFind ==
    \A p \in SeqProcs :
        (/\ proc[p].pc = "done"
         /\ proc[p].name = "find_session_for_tool"
         /\ prev.name = "register_session"
         /\ prev.cwd = proc[p].cwd
         /\ prev.ppid = proc[p].ppid)
        => proc[p].ret.session_id = prev.sid

\* C4: between calls, s is in cwd_to_sessions[h] if and only if a stored
\* record for s exists whose cwd_hash equals h.
IndexMatchesRecords ==
    (\A p \in ConcProcs : IsIdle(p)) =>
        \A h \in Hashes, s \in Sids :
            InSeq(s, index.cwd_to_sessions[h])
                <=> (files[s] # Absent /\ files[s].cwd_hash = h)

\* ------------------------------------------ record life cycle, one at a time
\* The same calls over two sessions, each run to completion before the next.
SpecLifeSeq ==
    Init /\ [][
        LET ULifeSeq ==
                [sids |-> Sids, traces |-> {"t1"}, cwds |-> {"/a"}, ppids |-> {100},
                 tools |-> {}, ages |-> MaxAges]
            NextLifeSeq ==
                \/ Tick
                \/ \E p \in SeqProcs :
                    \/ StartRegister(p, ULifeSeq) \/ StartUpdate(p, ULifeSeq)
                    \/ StartReactivate(p, ULifeSeq) \/ StartSweep(p, ULifeSeq)
                    \/ Flock(p) \/ Load(p) \/ RegSave(p) \/ IdxLock(p) \/ IdxLoad(p)
                    \/ RegIdxSave(p) \/ UpdateSave(p) \/ ReactSave(p) \/ ReactIdxSave(p)
                    \/ SweepRead(p) \/ SweepEnd(p) \/ SweepUnlink(p) \/ SweepIdxSave(p)
                    \/ SweepRemoveLock(p) \/ Exit(p)
        IN  NextLifeSeq
    ]_vars

\* Process p takes this step, being at pc in operation name on session s.
Acts(p, pc, name, s) ==
    /\ proc[p].pc = pc
    /\ proc[p].name = name
    /\ proc[p].sid = s
    /\ proc'[p] # proc[p]

NeverBothLocks ==
    \A p \in ConcProcs : ~(proc[p].sfd.held /\ proc[p].ifd)

\* C7: every write or deletion of a session's record file is done by a
\* process holding that session's lock, and every write of the index by a
\* process holding the index lock.
WritesUnderLock ==
    [][/\ \A s \in Sids :
            files'[s] # files[s] =>
                \E p \in ConcProcs :
                    /\ proc'[p] # proc[p]
                    /\ proc[p].sfd.held
                    /\ proc[p].sfd.name = s
       /\ index' # index =>
                \E p \in ConcProcs : proc'[p] # proc[p] /\ proc[p].ifd
      ]_vars

\* Process p has loaded a record under its session lock and has not yet
\* written it back.
Updating(p) ==
    /\ proc[p].pc \in {"upd_save", "add_save", "pop_save", "react_save"}
    /\ proc[p].sfd.held
    /\ proc[p].sess # Absent

\* C6: mutations of one session's record are linearized by its lock, and
\* mutations of the index by the index lock: no two processes are between
\* load and save of the same record at the same time, and no two between
\* load and save of the index, so that no completed write is overwritten
\* from a copy read before it.
UpdatesSerialized ==
    \A p, q \in ConcProcs :
        p # q =>
            /\ ~(Updating(p) /\ Updating(q) /\ proc[p].sid = proc[q].sid)
            /\ ~(proc[p].pc = "idx_save" /\ proc[q].pc = "idx_save")

\* ------------------------------------------------------ loads and saves raise
\* Taking the session lock, loading or saving the session record raises
\* inside the try block of the call: the finally clause releases the session
\* lock if it was taken and the exception leaves the call (register_session
\* skips its index update); raised inside the sweep's update_session it is
\* caught by the sweep's loop.
SessionFails(p) ==
    /\ proc[p].pc \in {"flock", "load", "reg_save", "upd_save", "add_save",
                       "pop_save", "react_save"}
    /\ Become(p, [proc[p] EXCEPT
                    !.pc = IF proc[p].name = "cleanup_stale_sessions"
                           THEN "sw_next" ELSE "done",
                    !.raised = proc[p].name # "cleanup_stale_sessions",
                    !.sfd = NoFd])
    /\ UNCHANGED <<files, index, lockGen, now, nextSpan, prev>>

\* Taking the index lock raises, or loading, updating or saving the index
\* raises after the lock was taken.  register_session and _remove_session release it in a finally
\* clause (the sweep's loop catches the exception, the lock file stays);
\* reactivate_session catches the exception after the statement that would
\* have released it.
IndexFails(p) ==
    /\ proc[p].pc \in {"idx_lock", "idx_load", "idx_save"}
    /\ Become(p, IF proc[p].name = "reactivate_session"
                 THEN ReactFailed(proc[p])
                 ELSE [proc[p] EXCEPT
                         !.pc = IF proc[p].name = "cleanup_stale_sessions"
                                THEN "sw_next" ELSE "done",
                         !.raised = proc[p].name # "cleanup_stale_sessions",
                         !.ifd = FALSE])
    /\ UNCHANGED <<files, index, lockGen, now, nextSpan, prev>>

\* One caller at a time over one session, where loads and saves can raise.
\* Exit is the end of the hook process, which closes what it left open.
SpecFault ==
    Init /\ [][
        LET UFault ==
                [sids |-> {"s1"}, traces |-> {"t1"}, cwds |-> {"/a"}, ppids |-> {100},
                 tools |-> {"Bash"}, ages |-> {0}]
            NextFault ==
                \/ Tick
                \/ \E p \in SeqProcs :
                    \/ StartRegister(p, UFault) \/ StartUpdate(p, UFault)
                    \/ StartAdd(p, UFault) \/ StartPop(p, UFault)
                    \/ StartReactivate(p, UFault) \/ StartSweep(p, UFault)
                    \/ Flock(p) \/ Load(p) \/ RegSave(p) \/ IdxLock(p) \/ IdxLoad(p)
                    \/ RegIdxSave(p) \/ UpdateSave(p) \/ AddSave(p) \/ PopSave(p)
                    \/ ReactSave(p) \/ ReactIdxSave(p)
                    \/ SweepRead(p) \/ SweepEnd(p) \/ SweepUnlink(p) \/ SweepIdxSave(p)
                    \/ SweepRemoveLock(p)
                    \/ SessionFails(p) \/ IndexFails(p) \/ Exit(p)
        IN  NextFault
    ]_vars

\* C8: every lock a registry operation acquired is released on every exit
\* path, the paths where loading or saving raises included: an operation
\* that has returned holds neither a session lock nor the index lock.
LocksReleasedOnExit ==
    \A p \in ConcProcs :
        proc[p].pc = "done" => ~proc[p].sfd.held /\ ~proc[p].ifd

\* --------------------------------------------------------------- progress
\* Process p is blocked in flock.
Waiting(p) == proc[p].pc \in {"flock", "idx_lock"}

\* A step of p that is not the start of a call, the grant of a lock or the
\* end of its process.
Step(p) ==
    \/ Load(p) \/ RegSave(p) \/ IdxLoad(p) \/ RegIdxSave(p) \/ UpdateSave(p)
    \/ ReactSave(p) \/ ReactIdxSave(p)
    \/ SweepRead(p) \/ SweepEnd(p) \/ SweepUnlink(p) \/ SweepIdxSave(p)
    \/ SweepRemoveLock(p)

\* A process inside a call keeps taking steps, and a blocked flock that could
\* return again and again does return.  Nothing obliges a process to start a
\* call or to end.
Fairness ==
    \A p \in ConcProcs :
        /\ WF_vars(Step(p))
        /\ SF_vars(Flock(p))
        /\ SF_vars(IdxLock(p))

\* Two processes over one session with the sweep at max_age_hours = 0, the
\* clock read at two instants.
NextLive ==
    LET ULive ==
            [sids |-> {"s1"}, traces |-> {"t1"}, cwds |-> {"/a"}, ppids |-> {100},
             tools |-> {}, ages |-> {0}]
        TickLive ==
            /\ now < LiveTime
            /\ now' = now + 1
            /\ UNCHANGED <<files, index, lockGen, nextSpan, proc, prev>>
    IN  \/ TickLive
        \/ \E p \in ConcProcs :
            \/ StartRegister(p, ULive) \/ StartUpdate(p, ULive)
            \/ StartReactivate(p, ULive) \/ StartSweep(p, ULive)
            \/ Flock(p) \/ Load(p) \/ RegSave(p) \/ IdxLock(p) \/ IdxLoad(p)
            \/ RegIdxSave(p) \/ UpdateSave(p) \/ ReactSave(p) \/ ReactIdxSave(p)
            \/ SweepRead(p) \/ SweepEnd(p) \/ SweepUnlink(p) \/ SweepIdxSave(p)
            \/ SweepRemoveLock(p) \/ Exit(p)

SpecLive == Init /\ [][NextLive]_vars /\ Fairness

Hang(p) ==
    /\ proc[p].sfd.held \/ proc[p].ifd
    /\ proc[p].pc \notin {"done", "hung"}
    /\ Become(p, [proc[p] EXCEPT !.pc = "hung"])
    /\ UNCHANGED <<files, index, lockGen, now, nextSpan, prev>>

SpecHang ==
    Init /\ [][
        LET NextHang ==
                \/ NextLive
                \/ \E p \in ConcProcs : Hang(p)
        IN  NextHang
    ]_vars /\ Fairness

\* Process p is blocked on a lock that a hung process holds.
BlockedByHung(p) ==
    \E q \in ConcProcs \ {p} :
        /\ proc[q].pc = "hung"
        /\ \/ /\ proc[p].pc = "flock"
              /\ proc[q].sfd.held
              /\ proc[q].sfd.name = proc[p].sfd.name
              /\ proc[q].sfd.gen = proc[p].sfd.gen
           \/ proc[p].pc = "idx_lock" /\ proc[q].ifd

\* C10: lock acquisition has a bounded wait: a process blocked on a session
\* lock or the index lock held by a peer that never releases it eventually
\* stops waiting and abandons the operation.
BoundedWait ==
    \A p \in ConcProcs : BlockedByHung(p) ~> ~Waiting(p)

\* ------------------------------------------ correlation after stop and resume
\* C11: find_session_for_tool called right after mark_session_stopped(s)
\* does not return s, and returns active records only; called right after
\* reactivate_session(s) has resumed the stopped s, from the cwd and ppid of
\* that call, it returns s.
StopResumeFind ==
    \A p \in SeqProcs :
        (proc[p].pc = "done" /\ proc[p].name = "find_session_for_tool") =>
            /\ proc[p].ret # Absent => proc[p].ret.status = "active"
            /\ prev.name = "mark_session_stopped" =>
                   proc[p].ret.session_id # prev.sid
            /\ (/\ prev.name = "reactivate_session"
                /\ prev.was = "stopped"
                /\ prev.cwd = proc[p].cwd
                /\ prev.ppid = proc[p].ppid)
               => proc[p].ret.session_id = prev.sid

\* -------------------------------------------- correlation, three sessions
\* Three sessions are registered, resumed and looked up from two directories
\* and two parent processes, one call at a time.
SpecThree ==
    Init /\ [][
        LET UThree ==
                [sids |-> AllSids, traces |-> {"t1"}, cwds |-> Cwds, ppids |-> Ppids,
                 tools |-> {}, ages |-> {}]
            NextThree ==
                \E p \in SeqProcs :
                    \/ StartRegister(p, UThree) \/ StartReactivate(p, UThree)
                    \/ StartFind(p, UThree)
                    \/ Flock(p) \/ Load(p) \/ RegSave(p) \/ IdxLock(p) \/ IdxLoad(p)
                    \/ RegIdxSave(p) \/ ReactSave(p) \/ ReactIdxSave(p)
                    \/ FindPpid(p) \/ FindLoad(p) \/ Exit(p)
        IN  NextThree
    ]_vars

\* The record of s is active and carries this directory and parent id.
ActiveAt(s, cwd, ppid) ==
    /\ files[s].status = "active"
    /\ files[s].cwd_hash = HashCwd(cwd)
    /\ files[s].ppid = ppid

\* C12: when two active sessions of one directory carry different parent
\* ids, find_session_for_tool called from that directory with the parent id
\* of one of them returns that one: the only active session of the directory
\* with the caller's parent id.
FindByPpid ==
    \A p \in SeqProcs :
        (proc[p].pc = "done" /\ proc[p].name = "find_session_for_tool") =>
            \A s, t \in AllSids :
                (/\ ActiveAt(s, proc[p].cwd, proc[p].ppid)
                 /\ \E q \in Ppids \ {proc[p].ppid} : ActiveAt(t, proc[p].cwd, q)
                 /\ \A u \in AllSids \ {s} :
                        ~ActiveAt(u, proc[p].cwd, proc[p].ppid))
                => proc[p].ret.session_id = s

\* C13: sessions of different directories never collide: when one session's
\* record carries the caller's directory and another's carries a different
\* one, find_session_for_tool does not return the other.
CwdIsolation ==
    \A p \in SeqProcs :
        (proc[p].pc = "done" /\ proc[p].name = "find_session_for_tool") =>
            \A s, t \in AllSids :
                (/\ files[s] # Absent
                 /\ files[s].cwd_hash = HashCwd(proc[p].cwd)
                 /\ files[t] # Absent
                 /\ files[t].cwd_hash # HashCwd(proc[p].cwd))
                => proc[p].ret.session_id # t

\* Process p completes the index update of a register_session or
\* reactivate_session made with parent id q.
IndexesPpid(p, q) ==
    /\ proc[p].pc = "idx_save"
    /\ proc[p].name \in {"register_session", "reactivate_session"}
    /\ proc[p].ppid = q
    /\ proc'[p] # proc[p]

\* C14: ppid_to_session is last-write-wins: the index update of every
\* register_session or reactivate_session made with parent id q leaves
\* ppid_to_session[q] naming that call's session, and between two such
\* updates ppid_to_session[q] does not change.
PpidLastWriteWins ==
    [][\A q \in Ppids :
        /\ \A p \in SeqProcs :
               IndexesPpid(p, q) => index'.ppid_to_session[q] = proc[p].sid
        /\ index'.ppid_to_session[q] # index.ppid_to_session[q] =>
               \E p \in SeqProcs : IndexesPpid(p, q)
      ]_vars

\* reactivate_session has returned: its parent id maps to its session, and
\* the record of another session registered with that parent id is still
\* there.
PpidLastWriteWinsWitness ==
    \E p \in SeqProcs, t \in AllSids :
        /\ proc[p].pc = "done"
        /\ proc[p].name = "reactivate_session"
        /\ proc[p].rtrace # "none"
        /\ index.ppid_to_session[proc[p].ppid] = proc[p].sid
        /\ t # proc[p].sid
        /\ files[t].ppid = proc[p].ppid

\* ------------------------------------------------------ the trace coordinator
\* cleanup_stale_sessions(max_age_hours: int = 24), as start_session_trace
\* calls it.
DefaultMaxAge == 24

\* A test that takes only an explicit resume for a resume.
ResumeOnly(src) == src = "resume"

\* source not in ("startup", "clear")
ResumeLike(src) == src \notin {"startup", "clear"}

\* What an operation returns when it has nothing to report: "noop" from the
\* three that return an id, None from the others.
Inert(op) ==
    IF op \in {"start_session_trace", "log_user_prompt", "start_tool_span"}
    THEN Noop ELSE Nothing

\* The operation returns.
Returned(r, result) ==
    [r EXCEPT !.pc = "done", !.name = r.op, !.op = "none", !.cret = result]

\* An operation whose handler lets the exception go on to the caller.
AbsorbedNot(r) ==
    [r EXCEPT !.pc = "done", !.name = r.op, !.op = "none", !.failed = TRUE,
              !.raised = TRUE]

\* except Exception: the failure is logged and "noop" or None returned.
Absorbed(r) ==
    [r EXCEPT !.pc = "done", !.name = r.op, !.op = "none", !.failed = TRUE,
              !.raised = FALSE, !.cret = Inert(r.op)]

\* A registry call made by the operation, up to os.open of the session lock.
SubCall(r, name, sid) ==
    [r EXCEPT !.pc = "flock", !.name = name, !.sid = sid, !.sess = Absent,
              !.rtrace = "none", !.rspan = NoSpan, !.sfd = OpenLock(sid)]

\* An operation that goes ahead without looking at self.enabled.
BegunAnyway(r, pc) == [r EXCEPT !.pc = pc]

\* An operation begins in a process with or without a backend client; with
\* none it returns at once.
Begun(r, pc) ==
    IF r.enabled THEN [r EXCEPT !.pc = pc] ELSE Returned(r, Inert(r.op))

\* A registry call of the operation op has returned normally.
Back(p, op, name) ==
    /\ proc[p].pc = "done"
    /\ proc[p].op = op
    /\ proc[p].name = name
    /\ ~proc[p].raised

\* The operation op is at its own step pc.
At(p, op, pc) == proc[p].op = op /\ proc[p].pc = pc

\* An exception reaches the operation's handler: a registry call raised, or
\* the backend call or the unlocked read about to be made raises.
CoordFails(p) ==
    /\ proc[p].op # "none"
    /\ \/ proc[p].pc = "done" /\ proc[p].raised
       \/ proc[p].pc \in {"c_get", "c_trace", "c_span", "c_update", "c_flush",
                          "c_end"}
    /\ Become(p, Absorbed(proc[p]))
    /\ UNCHANGED <<files, index, lockGen, now, nextSpan, prev>>

\* start_session_trace(session_id, source).
StartSessionTrace(p, U) ==
    /\ IsIdle(p)
    /\ \E sid \in U.sids, src \in U.sources, cwd \in U.cwds, ppid \in U.ppids,
          en \in U.enabled :
         Become(p, Begun([Idle EXCEPT !.op = "start_session_trace",
                                      !.sid = sid, !.src = src, !.cwd = cwd,
                                      !.ppid = ppid, !.enabled = en], "c_get"))
    /\ UNCHANGED <<files, index, lockGen, now, nextSpan, prev>>

\* A resume-like source with a stored record that has a trace id goes to
\* reactivate_session; anything else goes on to create a trace.
SstGet(p) ==
    /\ At(p, "start_session_trace", "c_get")
    /\ LET existing == LoadJson(files[proc[p].sid])
       IN  Become(p, IF /\ ResumeLike(proc[p].src)
                        /\ existing # Absent
                        /\ existing.trace_id # "none"
                     THEN SubCall(proc[p], "reactivate_session", proc[p].sid)
                     ELSE [proc[p] EXCEPT !.pc = "c_trace"])
    /\ UNCHANGED <<files, index, lockGen, now, nextSpan, prev>>

\* reactivate_session returned: its trace id is the result, and without one
\* a trace is created.
SstReactivated(p) ==
    /\ Back(p, "start_session_trace", "reactivate_session")
    /\ Become(p, IF proc[p].rtrace # "none"
                 THEN Returned(proc[p], TraceResult(proc[p].rtrace))
                 ELSE [proc[p] EXCEPT !.pc = "c_trace", !.name = "none"])
    /\ UNCHANGED <<files, index, lockGen, now, nextSpan, prev>>

\* self._client.trace(...) hands out a trace id, and register_session is
\* called with it.
SstTrace(p, U) ==
    /\ At(p, "start_session_trace", "c_trace")
    /\ \E t \in U.traces :
         Become(p, SubCall([proc[p] EXCEPT !.trace = t, !.t0 = now,
                                           !.log = Append(@, "trace")],
                           "register_session", proc[p].sid))
    /\ UNCHANGED <<files, index, lockGen, now, nextSpan, prev>>

\* register_session returned: cleanup_stale_sessions() is called.
SstRegistered(p) ==
    /\ Back(p, "start_session_trace", "register_session")
    /\ \E o \in Orders({s \in AllSids : files[s] # Absent}) :
         Become(p, [proc[p] EXCEPT !.pc = "sw_next",
                                   !.name = "cleanup_stale_sessions",
                                   !.maxAge = DefaultMaxAge, !.t0 = now,
                                   !.todo = o])
    /\ UNCHANGED <<files, index, lockGen, now, nextSpan, prev>>

\* The sweep returned: the new trace's id is the result.
SstSwept(p) ==
    /\ Back(p, "start_session_trace", "cleanup_stale_sessions")
    /\ Become(p, Returned(proc[p], TraceResult(proc[p].trace)))
    /\ UNCHANGED <<files, index, lockGen, now, nextSpan, prev>>

\* log_user_prompt(session_id, prompt).
StartLogPrompt(p, U) ==
    /\ IsIdle(p)
    /\ \E sid \in U.sids, en \in U.enabled :
         Become(p, Begun([Idle EXCEPT !.op = "log_user_prompt", !.sid = sid,
                                      !.enabled = en], "c_get"))
    /\ UNCHANGED <<files, index, lockGen, now, nextSpan, prev>>

\* get_session: without a record (or a trace id) the result is "noop".
LupGet(p) ==
    /\ At(p, "log_user_prompt", "c_get")
    /\ LET session == LoadJson(files[proc[p].sid])
       IN  Become(p, IF session = Absent \/ session.trace_id = "none"
                     THEN Returned(proc[p], Noop)
                     ELSE [proc[p] EXCEPT !.pc = "c_span"])
    /\ UNCHANGED <<files, index, lockGen, now, nextSpan, prev>>

\* A prompt that creates its span and then marks the session stopped.
LupSpanStops(p) ==
    /\ At(p, "log_user_prompt", "c_span")
    /\ Become(p, SubCall([proc[p] EXCEPT !.log = Append(@, "span")],
                         "mark_session_stopped", proc[p].sid))
    /\ UNCHANGED <<files, index, lockGen, now, nextSpan, prev>>

\* The prompt's span is created and ended, then update_session_activity is
\* called.  The span's id is not kept anywhere; it is 0 here.
LupSpan(p) ==
    /\ At(p, "log_user_prompt", "c_span")
    /\ Become(p, SubCall([proc[p] EXCEPT !.log = Append(@, "span")],
                         "update_session", proc[p].sid))
    /\ UNCHANGED <<files, index, lockGen, now, nextSpan, prev>>

LupUpdated(p) ==
    /\ Back(p, "log_user_prompt", "update_session")
    /\ Become(p, Returned(proc[p], SpanResult(0)))
    /\ UNCHANGED <<files, index, lockGen, now, nextSpan, prev>>

\* start_tool_span(tool_name, tool_input), up to the index read of
\* find_session_for_tool.
StartToolSpan(p, U) ==
    /\ IsIdle(p)
    /\ nextSpan <= MaxSpan
    /\ \E tool \in U.tools, cwd \in U.cwds, ppid \in U.ppids, en \in U.enabled :
         LET r == [Idle EXCEPT !.op = "start_tool_span", !.tool = tool,
                               !.cwd = cwd, !.ppid = ppid, !.enabled = en]
         IN  Become(p, IF en THEN FindBegun(r) ELSE Returned(r, Noop))
    /\ UNCHANGED <<files, index, lockGen, now, nextSpan, prev>>

\* The lookup returned: with no session the result is "noop".
StsFound(p) ==
    /\ Back(p, "start_tool_span", "find_session_for_tool")
    /\ Become(p, IF proc[p].ret = Absent \/ proc[p].ret.trace_id = "none"
                 THEN Returned(proc[p], Noop)
                 ELSE [proc[p] EXCEPT !.pc = "c_span", !.name = "none",
                                      !.sid = proc[p].ret.session_id,
                                      !.trace = proc[p].ret.trace_id])
    /\ UNCHANGED <<files, index, lockGen, now, nextSpan, prev>>

\* The backend hands out the span, and add_pending_span is called with it.
StsSpan(p) ==
    /\ At(p, "start_tool_span", "c_span")
    /\ Become(p, SubCall([proc[p] EXCEPT !.span = nextSpan,
                                         !.log = Append(@, "span")],
                         "add_pending_span", proc[p].sid))
    /\ nextSpan' = nextSpan + 1
    /\ UNCHANGED <<files, index, lockGen, now, prev>>

StsAdded(p) ==
    /\ Back(p, "start_tool_span", "add_pending_span")
    /\ Become(p, Returned(proc[p], SpanResult(proc[p].span)))
    /\ UNCHANGED <<files, index, lockGen, now, nextSpan, prev>>

\* end_tool_span(tool_name, tool_result), up to the index read of
\* find_session_for_tool.
StartEndToolSpan(p, U) ==
    /\ IsIdle(p)
    /\ \E tool \in U.tools, cwd \in U.cwds, ppid \in U.ppids, en \in U.enabled :
         LET r == [Idle EXCEPT !.op = "end_tool_span", !.tool = tool,
                               !.cwd = cwd, !.ppid = ppid, !.enabled = en]
         IN  Become(p, IF en THEN FindBegun(r) ELSE Returned(r, Nothing))
    /\ UNCHANGED <<files, index, lockGen, now, nextSpan, prev>>

\* The lookup returned: with a session, pop_pending_span is called.
EtsFound(p) ==
    /\ Back(p, "end_tool_span", "find_session_for_tool")
    /\ Become(p, IF proc[p].ret = Absent \/ proc[p].ret.trace_id = "none"
                 THEN Returned(proc[p], Nothing)
                 ELSE SubCall([proc[p] EXCEPT !.trace = proc[p].ret.trace_id],
                              "pop_pending_span", proc[p].ret.session_id))
    /\ UNCHANGED <<files, index, lockGen, now, nextSpan, prev>>

\* pop_pending_span returned: with no span there is nothing to end.
EtsPopped(p) ==
    /\ Back(p, "end_tool_span", "pop_pending_span")
    /\ Become(p, IF proc[p].rspan = NoSpan
                 THEN Returned(proc[p], Nothing)
                 ELSE [proc[p] EXCEPT !.pc = "c_end", !.name = "none"])
    /\ UNCHANGED <<files, index, lockGen, now, nextSpan, prev>>

\* The popped span is updated and ended at the backend.
EtsEnd(p) ==
    /\ At(p, "end_tool_span", "c_end")
    /\ Become(p, Returned([proc[p] EXCEPT !.log = Append(@, "end")], Nothing))
    /\ UNCHANGED <<files, index, lockGen, now, nextSpan, prev>>

\* end_session_trace(session_id).
StartEndSessionTrace(p, U) ==
    /\ IsIdle(p)
    /\ \E sid \in U.sids, en \in U.enabled :
         Become(p, Begun([Idle EXCEPT !.op = "end_session_trace", !.sid = sid,
                                      !.enabled = en], "c_get"))
    /\ UNCHANGED <<files, index, lockGen, now, nextSpan, prev>>

\* get_session: without a record the operation returns; with a trace id the
\* trace is updated first, without one the flush comes next.
EstGet(p) ==
    /\ At(p, "end_session_trace", "c_get")
    /\ LET session == LoadJson(files[proc[p].sid])
       IN  Become(p, IF session = Absent THEN Returned(proc[p], Nothing)
                     ELSE [proc[p] EXCEPT
                             !.trace = session.trace_id,
                             !.pc = IF session.trace_id # "none"
                                    THEN "c_update" ELSE "c_flush"])
    /\ UNCHANGED <<files, index, lockGen, now, nextSpan, prev>>

\* trace.update(metadata={"ended_at": ...})
EstUpdate(p) ==
    /\ At(p, "end_session_trace", "c_update")
    /\ Become(p, [proc[p] EXCEPT !.pc = "c_flush", !.log = Append(@, "update")])
    /\ UNCHANGED <<files, index, lockGen, now, nextSpan, prev>>

\* An end_session_trace that marks the session stopped without flushing.
EstFlushSkipped(p) ==
    /\ At(p, "end_session_trace", "c_flush")
    /\ Become(p, SubCall(proc[p], "mark_session_stopped", proc[p].sid))
    /\ UNCHANGED <<files, index, lockGen, now, nextSpan, prev>>

\* self._client.flush(), then mark_session_stopped is called.
EstFlush(p) ==
    /\ At(p, "end_session_trace", "c_flush")
    /\ Become(p, SubCall([proc[p] EXCEPT !.log = Append(@, "flush")],
                         "mark_session_stopped", proc[p].sid))
    /\ UNCHANGED <<files, index, lockGen, now, nextSpan, prev>>

EstStopped(p) ==
    /\ Back(p, "end_session_trace", "mark_session_stopped")
    /\ Become(p, Returned(proc[p], Nothing))
    /\ UNCHANGED <<files, index, lockGen, now, nextSpan, prev>>

\* flush().
StartFlush(p, U) ==
    /\ IsIdle(p)
    /\ \E en \in U.enabled :
         Become(p, Begun([Idle EXCEPT !.op = "flush", !.enabled = en],
                         "c_flush"))
    /\ UNCHANGED <<files, index, lockGen, now, nextSpan, prev>>

\* A flush that also empties every record's pending spans.
FlushDoneDrops(p) ==
    /\ At(p, "flush", "c_flush")
    /\ Become(p, Returned([proc[p] EXCEPT !.log = Append(@, "flush")], Nothing))
    /\ files' = [s \in AllSids |->
                    IF files[s] = Absent THEN Absent
                    ELSE [files[s] EXCEPT !.pending_spans = <<>>]]
    /\ UNCHANGED <<index, lockGen, now, nextSpan, prev>>

\* self._client.flush()
FlushDone(p) ==
    /\ At(p, "flush", "c_flush")
    /\ Become(p, Returned([proc[p] EXCEPT !.log = Append(@, "flush")], Nothing))
    /\ UNCHANGED <<files, index, lockGen, now, nextSpan, prev>>

\* Every operation of the coordinator, one call at a time, in processes with
\* and without a backend client, where the backend, loads and saves can
\* raise.
SpecCoord ==
    Init /\ [][
        LET UCoord ==
                [sids |-> Sids, traces |-> {"t1", "t2"}, cwds |-> {"/a"}, ppids |-> {100},
                 tools |-> {"Bash"}, ages |-> {}, 
                 sources |-> {"startup", "clear", "resume", "compact"},
                 enabled |-> BOOLEAN]
            NextCoord ==
                \E p \in SeqProcs :
                    \/ StartSessionTrace(p, UCoord) \/ SstGet(p) \/ SstReactivated(p)
                    \/ SstTrace(p, UCoord) \/ SstRegistered(p) \/ SstSwept(p)
                    \/ StartLogPrompt(p, UCoord) \/ LupGet(p) \/ LupSpan(p) \/ LupUpdated(p)
                    \/ StartToolSpan(p, UCoord) \/ StsFound(p) \/ StsSpan(p) \/ StsAdded(p)
                    \/ StartEndToolSpan(p, UCoord) \/ EtsFound(p) \/ EtsPopped(p)
                    \/ EtsEnd(p)
                    \/ StartEndSessionTrace(p, UCoord) \/ EstGet(p) \/ EstUpdate(p)
                    \/ EstFlush(p) \/ EstStopped(p)
                    \/ StartFlush(p, UCoord) \/ FlushDone(p)
                    \/ Flock(p) \/ Load(p) \/ RegSave(p) \/ IdxLock(p) \/ IdxLoad(p)
                    \/ RegIdxSave(p) \/ UpdateSave(p) \/ AddSave(p) \/ PopSave(p)
                    \/ ReactSave(p) \/ ReactIdxSave(p)
                    \/ SweepRead(p) \/ SweepEnd(p)
                    \/ FindLoad(p)
                    \/ SessionFails(p) \/ IndexFails(p) \/ CoordFails(p)
                    \/ Exit(p)
        IN  NextCoord
    ]_vars

\* C15: every operation of the coordinator absorbs a failure of the backend,
\* the store or the locks at any of its steps: no exception leaves it, and
\* once an exception has reached its handler it returns "noop" (None from
\* the operations that return nothing).
FailuresAbsorbed ==
    \A p \in SeqProcs :
        (/\ proc[p].pc = "done"
         /\ proc[p].name \in {"start_session_trace", "log_user_prompt",
                               "start_tool_span", "end_tool_span",
                               "end_session_trace", "flush"}) =>
            /\ ~proc[p].raised
            /\ proc[p].failed => proc[p].cret = Inert(proc[p].name)

\* start_session_trace has created its backend trace, register_session has
\* raised, and the operation has returned.
FailuresAbsorbedWitness ==
    \E p \in SeqProcs :
        /\ proc[p].pc = "done"
        /\ proc[p].name = "start_session_trace"
        /\ proc[p].failed
        /\ proc[p].log = <<"trace">>

\* C16: in a process without a backend client every operation of the
\* coordinator is inert: it returns "noop" (or None) in one step, has made no
\* backend call, and leaves every session record, the index and the
\* backend's span counter as they were.
DisabledIsInert ==
    [][\A p \in SeqProcs :
        (proc'[p] # proc[p] /\ ~proc'[p].enabled) =>
            /\ files' = files
            /\ index' = index
            /\ nextSpan' = nextSpan
            /\ proc'[p].pc = "done"
            /\ proc'[p].log = <<>>
            /\ proc'[p].cret = Inert(proc'[p].name)
      ]_vars

\* end_session_trace has returned in a process without a client while the
\* session's record is active.
DisabledIsInertWitness ==
    \E p \in SeqProcs :
        /\ proc[p].pc = "done"
        /\ proc[p].name = "end_session_trace"
        /\ ~proc[p].enabled
        /\ files[proc[p].sid].status = "active"

\* C17: start_session_trace with a resume-like source for a session whose
\* record exists with a trace id goes to reactivate_session, and when that
\* has returned, the operation returns the stored trace id having created no
\* backend trace, the record active and its trace_id unchanged.
ResumeKeepsTrace ==
    [][\A p \in SeqProcs :
        /\ (/\ At(p, "start_session_trace", "c_get")
            /\ proc[p].src \notin {"startup", "clear"}
            /\ files[proc[p].sid] # Absent
            /\ files[proc[p].sid].trace_id # "none"
            /\ proc'[p] # proc[p]
            /\ ~proc'[p].failed)
           => /\ proc'[p].name = "reactivate_session"
              /\ proc'[p].pc = "flock"
        /\ (/\ Back(p, "start_session_trace", "reactivate_session")
            /\ proc'[p] # proc[p])
           => /\ proc'[p].pc = "done"
              /\ proc'[p].cret = TraceResult(proc[p].sess.trace_id)
              /\ proc'[p].log = <<>>
              /\ files'[proc[p].sid].status = "active"
              /\ files'[proc[p].sid].trace_id = proc[p].sess.trace_id
      ]_vars

\* start_session_trace(source="compact") has resumed a stopped session.
ResumeKeepsTraceWitness ==
    \E p \in SeqProcs :
        /\ proc[p].pc = "done"
        /\ proc[p].name = "start_session_trace"
        /\ proc[p].src = "compact"
        /\ proc[p].sess.status = "stopped"
        /\ proc[p].cret.kind = "trace"
        /\ proc[p].log = <<>>

\* C18: end_session_trace for a known session updates the backend trace,
\* flushes, and only then marks the session stopped: its write of the record
\* comes after both backend calls, sets status stopped and keeps the
\* trace_id, and when the operation has returned the record is there,
\* stopped, with the trace id it had.
StopAfterFlush ==
    [][\A p \in SeqProcs :
        /\ (proc[p].op = "end_session_trace"
                /\ files'[proc[p].sid] # files[proc[p].sid])
           => /\ proc[p].log = <<"update", "flush">>
              /\ files'[proc[p].sid].status = "stopped"
              /\ files'[proc[p].sid].trace_id = proc[p].trace
        /\ (/\ Back(p, "end_session_trace", "mark_session_stopped")
            /\ proc'[p] # proc[p])
           => /\ proc'[p].log = <<"update", "flush">>
              /\ files'[proc[p].sid].status = "stopped"
              /\ files'[proc[p].sid].trace_id = proc[p].trace
      ]_vars

\* end_session_trace has returned for an active session: both backend calls
\* were made and the record is stopped.
StopAfterFlushWitness ==
    \E p \in SeqProcs :
        /\ proc[p].pc = "done"
        /\ proc[p].name = "end_session_trace"
        /\ ~proc[p].failed
        /\ proc[p].sess.status = "active"
        /\ proc[p].log = <<"update", "flush">>
        /\ files[proc[p].sid].status = "stopped"

\* ------------------------------------------------ sweeps with threshold zero
\* Sessions are registered, stopped, swept with max_age_hours=0 and looked
\* up, one call at a time, every call at a later clock reading than the one
\* before it.
SpecZero ==
    Init /\ [][
        LET UZero ==
                [sids |-> Sids, traces |-> {"t1"}, cwds |-> Cwds, ppids |-> Ppids,
                 tools |-> {}, ages |-> {0}]
            NextZero ==
                \E p \in SeqProcs :
                    \/ StartRegister(p, UZero) \/ StartUpdate(p, UZero)
                    \/ StartSweep(p, UZero) \/ StartFind(p, UZero)
                    \/ Flock(p) \/ Load(p) \/ RegSave(p) \/ IdxLock(p) \/ IdxLoad(p)
                    \/ RegIdxSave(p) \/ UpdateSave(p)
                    \/ SweepRead(p) \/ SweepEnd(p) \/ SweepUnlink(p) \/ SweepIdxSave(p)
                    \/ SweepRemoveLock(p) \/ FindPpid(p) \/ FindLoad(p) \/ ExitLater(p)
        IN  NextZero
    ]_vars

\* A sweep with threshold zero has returned.
SweptZero(p) ==
    /\ proc[p].pc = "done"
    /\ proc[p].name = "cleanup_stale_sessions"
    /\ proc[p].maxAge = 0

\* C19: when cleanup_stale_sessions(max_age_hours=0) returns no record is
\* active (the active ones were marked stale, not deleted: a session that was
\* registered and never stopped is still stored after the first sweep); when
\* a second such sweep follows it, no record is left and neither index map
\* names any session; find_session_for_tool called after either sweep
\* returns absent.
ZeroSweeps ==
    \A p \in SeqProcs :
        /\ SweptZero(p) =>
                \A s \in AllSids :
                    files[s] # Absent => files[s].status = "stale"
        /\ (SweptZero(p) /\ prev.name = "register_session") =>
                /\ files[prev.sid] # Absent
                /\ files[prev.sid].status = "stale"
        /\ (SweptZero(p) /\ prev.name = "cleanup_stale_sessions") =>
                /\ \A s \in AllSids : files[s] = Absent
                /\ index = EmptyIndex
        /\ (/\ proc[p].pc = "done"
            /\ proc[p].name = "find_session_for_tool"
            /\ prev.name = "cleanup_stale_sessions") =>
                proc[p].ret = Absent

\* A second sweep has just deleted a record the first had marked stale.
ZeroSweepsWitness ==
    \E p \in SeqProcs :
        /\ SweptZero(p)
        /\ prev.name = "cleanup_stale_sessions"
        /\ prev.age = 0
        /\ proc[p].sid \in Sids
        /\ proc[p].sess # Absent
        /\ proc[p].sess.status = "stale"
        /\ files[proc[p].sid] = Absent

\* ------------------------------------------------------- repeated sweeps
\* Sessions are registered, touched, stopped and swept with either threshold,
\* one call at a time, while time passes or stands still.
SpecSweep ==
    Init /\ [][
        LET USweep ==
                [sids |-> Sids, traces |-> {"t1"}, cwds |-> {"/a"}, ppids |-> {100},
                 tools |-> {}, ages |-> MaxAges]
            NextSweep ==
                \/ Tick
                \/ \E p \in SeqProcs :
                    \/ StartRegister(p, USweep) \/ StartUpdate(p, USweep)
                    \/ StartSweep(p, USweep)
                    \/ Flock(p) \/ Load(p) \/ RegSave(p) \/ IdxLock(p) \/ IdxLoad(p)
                    \/ RegIdxSave(p) \/ UpdateSave(p)
                    \/ SweepRead(p) \/ SweepEnd(p) \/ SweepUnlink(p) \/ SweepIdxSave(p)
                    \/ SweepRemoveLock(p) \/ ExitSeq(p)
        IN  NextSweep
    ]_vars

\* Process p is in a sweep that follows a sweep with the same threshold, and
\* the clock still reads what the earlier sweep read.
Resweeping(p) ==
    /\ proc[p].name = "cleanup_stale_sessions"
    /\ prev.name = "cleanup_stale_sessions"
    /\ prev.age = proc[p].maxAge
    /\ prev.at = now

\* C20: sweeping is idempotent while no time passes: a sweep that follows a
\* completed sweep with the same max_age_hours, at the clock reading of that
\* sweep, changes no session record and not the index, whatever the first
\* sweep marked stale or deleted.
SweepIdempotent ==
    [][\A p \in SeqProcs :
          Resweeping(p) => (files' = files /\ index' = index)]_vars

\* A sweep has read, at the clock reading of the sweep before it, a record
\* that sweep marked stale, and found nothing more to do.
SweepIdempotentWitness ==
    \E p \in SeqProcs :
        /\ Resweeping(p)
        /\ proc[p].pc = "done"
        /\ now > 0
        /\ proc[p].sess # Absent
        /\ proc[p].sess.status = "stale"
        /\ proc[p].sess.last_activity = now
        /\ files[proc[p].sid] = proc[p].sess

\* ------------------------------------------------- tool spans, one caller
\* Sessions are registered in one directory, touched and stopped, and tool
\* spans started and ended from that directory and from another, one call at
\* a time, in a process that has a backend client.
SpecTool ==
    Init /\ [][
        LET UToolReg ==
                [sids |-> Sids, traces |-> {"t1"}, cwds |-> {"/a"}, ppids |-> {100},
                 tools |-> {}, ages |-> {}]
            UTool ==
                [sids |-> Sids, traces |-> {"t1"}, cwds |-> Cwds, ppids |-> {100},
                 tools |-> ToolNames, ages |-> {}, sources |-> {}, enabled |-> {TRUE}]
            NextTool ==
                \E p \in SeqProcs :
                    \/ StartRegister(p, UToolReg) \/ StartUpdate(p, UToolReg)
                    \/ StartToolSpan(p, UTool) \/ StsFound(p) \/ StsSpan(p) \/ StsAdded(p)
                    \/ StartEndToolSpan(p, UTool) \/ EtsFound(p) \/ EtsPopped(p)
                    \/ EtsEnd(p)
                    \/ Flock(p) \/ Load(p) \/ RegSave(p) \/ IdxLock(p) \/ IdxLoad(p)
                    \/ RegIdxSave(p) \/ UpdateSave(p) \/ AddSave(p) \/ PopSave(p)
                    \/ FindPpid(p) \/ FindLoad(p) \/ ExitSeq(p)
        IN  NextTool
    ]_vars

\* s is the one active session of the store, and it is in the context.
OnlyActive(s, cwd, ppid) ==
    /\ ActiveAt(s, cwd, ppid)
    /\ \A o \in AllSids \ {s} : files[o].status # "active"

\* start_tool_span has returned in a context with one active session: it
\* returned the id of the span it opened and appended it to that session.
StartedSpan(p, s) ==
    /\ proc[p].cret = SpanResult(proc[p].span)
    /\ proc[p].span > 0
    /\ proc[p].log = <<"span">>
    /\ proc[p].ret.session_id = s
    /\ files[s].pending_spans =
          Append(proc[p].ret.pending_spans,
                 [span_id |-> proc[p].span, tool_name |-> proc[p].tool])

\* end_tool_span has returned after a start_tool_span of the same tool from
\* the same context.
EndedAfterStart(p) ==
    /\ proc[p].pc = "done"
    /\ proc[p].name = "end_tool_span"
    /\ prev.name = "start_tool_span"
    /\ prev.cwd = proc[p].cwd
    /\ prev.ppid = proc[p].ppid
    /\ prev.tool = proc[p].tool

\* It popped the span that start opened, closed it at the backend and left
\* pending_spans as the start had found it.
EndedThatSpan(p, s) ==
    /\ prev.cret = SpanResult(prev.span)
    /\ proc[p].rspan = [span_id |-> prev.span, tool_name |-> proc[p].tool]
    /\ proc[p].log = <<"end">>
    /\ files[s].pending_spans = prev.ret.pending_spans

\* C21 as stated: with one active session in the context, start_tool_span
\* returns a live span id and appends it, and the end_tool_span that follows
\* pops exactly that span, closes it and leaves pending_spans as it was
\* before the start, whatever was pending.
ToolSpanRoundTripAlways ==
    \A p \in SeqProcs, s \in Sids :
        /\ (/\ proc[p].pc = "done"
            /\ proc[p].name = "start_tool_span"
            /\ OnlyActive(s, proc[p].cwd, proc[p].ppid)) => StartedSpan(p, s)
        /\ (EndedAfterStart(p) /\ OnlyActive(s, proc[p].cwd, proc[p].ppid))
                => EndedThatSpan(p, s)

\* C21, amended: the same when no span of tool T was pending before the
\* start; with one pending, end_tool_span pops the oldest span of T, which
\* is not the one just started.
ToolSpanRoundTrip ==
    \A p \in SeqProcs, s \in Sids :
        /\ (/\ proc[p].pc = "done"
            /\ proc[p].name = "start_tool_span"
            /\ OnlyActive(s, proc[p].cwd, proc[p].ppid)) => StartedSpan(p, s)
        /\ (/\ EndedAfterStart(p)
            /\ OnlyActive(s, proc[p].cwd, proc[p].ppid)
            /\ PopIndex(prev.ret.pending_spans, proc[p].tool) = 0)
                => EndedThatSpan(p, s)

\* A span of Bash was started and ended while a span of Read stayed pending.
ToolSpanRoundTripWitness ==
    \E p \in SeqProcs, s \in Sids :
        /\ EndedAfterStart(p)
        /\ OnlyActive(s, proc[p].cwd, proc[p].ppid)
        /\ PopIndex(prev.ret.pending_spans, proc[p].tool) = 0
        /\ prev.ret.pending_spans # <<>>
        /\ proc[p].rspan.span_id = prev.span
        /\ files[s].pending_spans = prev.ret.pending_spans

\* C22: no step of a start_tool_span called from a context with no active
\* session changes a record or the index or opens a backend span, and the
\* call returns the "noop" sentinel.
NoSessionNoSpan ==
    [][\A p \in SeqProcs :
          LET ids == index.cwd_to_sessions[HashCwd(proc[p].cwd)]
              pps == index.ppid_to_session[proc[p].ppid]
              NoSession ==
                  IF ids = <<>>
                  THEN pps = "none" \/ files[pps].status # "active"
                  ELSE \A i \in 1..Len(ids) : files[ids[i]].status # "active"
          IN
          (/\ proc[p].op = "start_tool_span"
           /\ NoSession)
          => /\ files' = files
             /\ index' = index
             /\ nextSpan' = nextSpan
             /\ proc'[p].log = <<>>
             /\ proc'[p].op = "none" => proc'[p].cret = Noop]_vars

\* start_tool_span has returned "noop" in a directory where nothing was
\* registered, while the session the parent id maps to is stopped and
\* another session is active elsewhere.
NoSessionNoSpanWitness ==
    \E p \in SeqProcs :
        /\ proc[p].pc = "done"
        /\ proc[p].name = "start_tool_span"
        /\ proc[p].cwd = "/b"
        /\ proc[p].cret = Noop
        /\ index.ppid_to_session[proc[p].ppid] = "s2"
        /\ files["s2"].status = "stopped"
        /\ files["s1"].status = "active"

\* C25: a stored record's pending_spans changes only by an append of
\* add_pending_span or by pop_pending_span removing a span of its tool name,
\* and a record with its pending spans goes away only in the sweep: no other
\* step, a later start_session_trace for the same session_id included,
\* discards or reorders pending spans.
PendingSpansKept ==
    [][\A s \in Sids :
          files[s] # Absent =>
            LET a == files[s].pending_spans
                b == files'[s].pending_spans
            IN  \/ /\ files'[s] = Absent
                   /\ \E p \in SeqProcs : proc[p].name = "cleanup_stale_sessions"
                \/ /\ files'[s] # Absent
                   /\ b = a
                \/ /\ files'[s] # Absent
                   /\ \E p \in SeqProcs :
                        /\ proc[p].name = "add_pending_span"
                        /\ proc[p].sid = s
                        /\ b = Append(a, [span_id |-> proc[p].span,
                                          tool_name |-> proc[p].tool])
                \/ /\ files'[s] # Absent
                   /\ \E p \in SeqProcs, i \in 1..Len(a) :
                        /\ proc[p].name = "pop_pending_span"
                        /\ proc[p].sid = s
                        /\ a[i].tool_name = proc[p].tool
                        /\ b = RemoveAt(a, i)]_vars

\* C26: no step of flush(), from its call to its return, in whatever state
\* the registry is, changes a session record (its pending spans included) or
\* the index.
FlushLeavesRegistry ==
    [][\A p \in SeqProcs :
          (proc[p].op = "flush" \/ proc'[p].op = "flush"
              \/ (IsIdle(p) /\ proc'[p].name = "flush"))
          => (files' = files /\ index' = index)]_vars

\* flush() has returned after a backend flush while one session has a
\* pending span and the other is stopped.
FlushLeavesRegistryWitness ==
    \E p \in SeqProcs :
        /\ proc[p].pc = "done"
        /\ proc[p].name = "flush"
        /\ proc[p].log = <<"flush">>
        /\ files["s1"].pending_spans # <<>>
        /\ files["s2"].status = "stopped"

\* ------------------------------------------------------ writes, step by step
\* The call is at a _save_json that will write its record file.
Writes(r) ==
    \/ r.pc = "reg_save"
    \/ r.pc \in {"upd_save", "add_save", "react_save"} /\ r.sess # Absent
    \/ /\ r.pc = "pop_save"
       /\ r.sess # Absent
       /\ PopIndex(r.sess.pending_spans, r.tool) > 0

\* _save_json: open(path, 'w') truncates the record file in place.
SaveOpens(p) ==
    /\ Writes(proc[p])
    /\ files[proc[p].sid] # Torn
    /\ files' = [files EXCEPT ![proc[p].sid] = Torn]
    /\ UNCHANGED <<index, lockGen, now, nextSpan, proc, prev>>

\* The file a _save_json writes has been opened.
Opened(p) == Writes(proc[p]) => files[proc[p].sid] = Torn

\* _save_json: json.dump(data, f) and the close, in register_session and in
\* update_session.
RegDump(p) == Opened(p) /\ RegSave(p)
UpdateDump(p) == Opened(p) /\ UpdateSave(p)

\* The process is killed wherever it is: its descriptors are closed, which
\* drops its locks, and what it had written stays.
Killed(p) ==
    /\ proc[p].pc \notin {"idle", "done"}
    /\ Become(p, Idle)
    /\ UNCHANGED <<files, index, lockGen, now, nextSpan, prev>>

\* Two processes register, touch, stop, look up and sweep one session, every
\* write a truncation followed by the dump, and a process can die anywhere.
SpecTorn ==
    Init /\ [][
        LET UTorn ==
                [sids |-> {"s1"}, traces |-> {"t1"}, cwds |-> {"/a"}, ppids |-> {100},
                 tools |-> {}, ages |-> {0}]
            NextTorn ==
                \E p \in ConcProcs :
                    \/ StartRegister(p, UTorn) \/ StartUpdate(p, UTorn)
                    \/ StartFind(p, UTorn) \/ StartSweep(p, UTorn)
                    \/ Flock(p) \/ Load(p) \/ SaveOpens(p) \/ RegDump(p) \/ UpdateDump(p)
                    \/ IdxLock(p) \/ IdxLoad(p) \/ RegIdxSave(p)
                    \/ FindLoad(p) \/ SweepRead(p) \/ SweepEnd(p)
                    \/ Killed(p) \/ Exit(p)
        IN  NextTorn
    ]_vars

\* C23: no read of a record file, locked or lock-free, finds the file
\* truncated or half written: it finds the content before a write or the
\* content after it, also when the writer died in the middle.
ReadsWhole ==
    [][\A p \in ConcProcs :
          LET AtRead ==
                  \/ proc[p].pc = "load"
                  \/ /\ proc[p].pc \in {"find_load", "sw_next"}
                     /\ proc[p].todo # <<>>
              ReadTarget ==
                  IF proc[p].pc = "load" THEN proc[p].sid
                  ELSE Head(proc[p].todo)
          IN  (AtRead /\ proc'[p] # proc[p] /\ proc'[p].pc # "idle")
              => files[ReadTarget] # Torn]_vars

\* ------------------------------------------------------------ damaged files
\* A record file is damaged from outside: cut short, or overwritten with
\* bytes that are not text.
Damaged(s) ==
    /\ files[s] # Absent
    /\ \E content \in {Torn, Garbled} :
         /\ files[s] # content
         /\ files' = [files EXCEPT ![s] = content]
    /\ UNCHANGED <<index, lockGen, now, nextSpan, proc, prev>>

\* _load_session under the session lock raises on a file that cannot be
\* decoded: the finally clause releases the lock and the exception leaves
\* the call.
LoadRaises(p) ==
    /\ proc[p].pc = "load"
    /\ files[proc[p].sid] = Garbled
    /\ Become(p, [proc[p] EXCEPT !.pc = "done", !.raised = TRUE, !.sfd = NoFd])
    /\ UNCHANGED <<files, index, lockGen, now, nextSpan, prev>>

\* find_session_for_tool: _load_session raises on a file that cannot be
\* decoded, and the handler around the whole lookup returns None.
FindRaises(p) ==
    /\ proc[p].pc = "find_load"
    /\ files[Head(proc[p].todo)] = Garbled
    /\ Become(p, [proc[p] EXCEPT !.pc = "done", !.ret = Absent])
    /\ UNCHANGED <<files, index, lockGen, now, nextSpan, prev>>

\* Sessions of one directory are registered, touched, stopped and looked up,
\* one call at a time, while record files get damaged.
SpecCorrupt ==
    Init /\ [][
        LET UCorrupt ==
                [sids |-> Sids, traces |-> {"t1"}, cwds |-> {"/a"}, ppids |-> {100},
                 tools |-> {}, ages |-> {}]
            NextCorrupt ==
                \/ \E s \in Sids : Damaged(s)
                \/ \E p \in SeqProcs :
                    \/ StartRegister(p, UCorrupt) \/ StartUpdate(p, UCorrupt)
                    \/ StartFind(p, UCorrupt)
                    \/ Flock(p) \/ Load(p) \/ LoadRaises(p) \/ RegSave(p)
                    \/ IdxLock(p) \/ IdxLoad(p) \/ RegIdxSave(p) \/ UpdateSave(p)
                    \/ FindLoad(p) \/ FindRaises(p) \/ Exit(p)
        IN  NextCorrupt
    ]_vars

\* C24: no registry call that met a damaged record file raised, and a
\* damaged record of one session does not keep find_session_for_tool from
\* returning another session that is active and listed for the same cwd.
CorruptReadsAbsent ==
    \A p \in SeqProcs :
        /\ proc[p].pc = "done" => ~proc[p].raised
        /\ (/\ proc[p].pc = "done"
            /\ proc[p].name = "find_session_for_tool"
            /\ \E s, o \in Sids :
                  /\ files[s] \in {Torn, Garbled}
                  /\ files[o].status = "active"
                  /\ files[o].cwd_hash = HashCwd(proc[p].cwd)
                  /\ InSeq(o, index.cwd_to_sessions[HashCwd(proc[p].cwd)]))
           => proc[p].ret # Absent

\* C27: at any time at most one process holds the lock of a given name, a
\* session id or "index", also while the sweep deletes sessions and unlinks
\* their lock files.
OneHolderPerName ==
    \A p, q \in ConcProcs :
        p # q =>
            /\ ~(/\ proc[p].sfd.held
                 /\ proc[q].sfd.held
                 /\ proc[p].sfd.name = proc[q].sfd.name)
            /\ ~(proc[p].ifd /\ proc[q].ifd)

\* C28: every transition the sweep makes is consistent at the moment it is
\* made: a step of cleanup_stale_sessions that writes a record finds it
\* active and older than the threshold (by the sweep's own clock reading),
\* and a step that deletes a record finds it stopped or stale and older than
\* twice the threshold.
SweepTransitionsConsistent ==
    [][\A p \in ConcProcs, s \in Sids :
          (/\ proc[p].name = "cleanup_stale_sessions"
           /\ proc'[p] # proc[p]
           /\ files'[s] # files[s])
          => IF files'[s] = Absent
             THEN /\ files[s].status \in {"stopped", "stale"}
                  /\ proc[p].t0 - files[s].last_activity > proc[p].maxAge * 2
             ELSE /\ files'[s].status = "stale"
                  /\ files[s].status = "active"
                  /\ proc[p].t0 - files[s].last_activity > proc[p].maxAge]_vars

\* C29: there is no transition out of deleted: a record file that does not
\* exist comes into existence only by a step of register_session, under
\* every interleaving of the other calls with the sweep.
DeletedStaysDeleted ==
    [][\A s \in Sids :
          (files[s] = Absent /\ files'[s] # Absent)
          => \E p \in ConcProcs :
                /\ proc[p].name = "register_session"
                /\ proc'[p] # proc[p]]_vars

\* C30: find_session_for_tool uses ppid_to_session only when nothing is
\* listed for the caller's cwd hash, and then returns the mapped record only
\* if it is active; when sessions are listed for the cwd, it returns one of
\* them or absent, and absent when none of them is active, whatever the
\* parent id maps to.
PpidFallbackOnlyWhenUnlisted ==
    \A p \in SeqProcs :
        (proc[p].pc = "done" /\ proc[p].name = "find_session_for_tool") =>
            LET ids == index.cwd_to_sessions[HashCwd(proc[p].cwd)]
                pps == index.ppid_to_session[proc[p].ppid]
            IN  /\ ids = <<>> =>
                      proc[p].ret = IF pps # "none" /\ files[pps].status = "active"
                                    THEN files[pps] ELSE Absent
                /\ ids # <<>> =>
                      \/ proc[p].ret = Absent
                      \/ InSeq(proc[p].ret.session_id, ids)
                /\ (/\ ids # <<>>
                    /\ \A i \in 1..Len(ids) : files[ids[i]].status # "active")
                   => proc[p].ret = Absent

\* A lookup has returned absent from a directory whose listed session is
\* stopped, while the caller's parent id maps to an active session.
PpidFallbackOnlyWhenUnlistedWitness ==
    \E p \in SeqProcs :
        /\ proc[p].pc = "done"
        /\ proc[p].name = "find_session_for_tool"
        /\ index.cwd_to_sessions[HashCwd(proc[p].cwd)] # <<>>
        /\ index.ppid_to_session[proc[p].ppid] # "none"
        /\ files[index.ppid_to_session[proc[p].ppid]].status = "active"
        /\ proc[p].ret = Absent

\* ------------------------------------------- lookups from a stranger parent
\* Sessions of one directory are registered, touched and stopped under one
\* parent id while time passes, and looked up under that parent id and
\* under another that no record carries, one call at a time.
SpecRecent ==
    Init /\ [][
        LET URecentReg ==
                [sids |-> Sids, traces |-> {"t1"}, cwds |-> {"/a"}, ppids |-> {100},
                 tools |-> {}, ages |-> {}]
            URecent ==
                [sids |-> Sids, traces |-> {"t1"}, cwds |-> {"/a"}, ppids |-> Ppids,
                 tools |-> {}, ages |-> {}]
            NextRecent ==
                \/ Tick
                \/ \E p \in SeqProcs :
                    \/ StartRegister(p, URecentReg) \/ StartUpdate(p, URecentReg)
                    \/ StartFind(p, URecent)
                    \/ Flock(p) \/ Load(p) \/ RegSave(p) \/ IdxLock(p) \/ IdxLoad(p)
                    \/ RegIdxSave(p) \/ UpdateSave(p) \/ FindLoad(p) \/ Exit(p)
        IN  NextRecent
    ]_vars

\* The active sessions listed for a cwd.
ActiveListed(cwd) ==
    {s \in AllSids : /\ InSeq(s, index.cwd_to_sessions[HashCwd(cwd)])
                     /\ files[s].status = "active"}

\* C31: when several active sessions are listed under the caller's cwd hash
\* and none of them carries the caller's parent id, find_session_for_tool
\* returns one of them whose last_activity no other of them exceeds.
LatestWhenNoPpidMatch ==
    \A p \in SeqProcs :
        (/\ proc[p].pc = "done"
         /\ proc[p].name = "find_session_for_tool"
         /\ Cardinality(ActiveListed(proc[p].cwd)) > 1
         /\ \A s \in ActiveListed(proc[p].cwd) : files[s].ppid # proc[p].ppid)
        => /\ proc[p].ret.session_id \in ActiveListed(proc[p].cwd)
           /\ proc[p].ret = files[proc[p].ret.session_id]
           /\ \A s \in ActiveListed(proc[p].cwd) :
                 files[s].last_activity <= proc[p].ret.last_activity

\* The lookup returned the session listed second, the one touched last.
LatestWhenNoPpidMatchWitness ==
    \E p \in SeqProcs :
        /\ proc[p].pc = "done"
        /\ proc[p].name = "find_session_for_tool"
        /\ proc[p].ppid = 200
        /\ Cardinality(ActiveListed(proc[p].cwd)) > 1
        /\ proc[p].ret.session_id = index.cwd_to_sessions[HashCwd(proc[p].cwd)][2]
        /\ files[index.cwd_to_sessions[HashCwd(proc[p].cwd)][1]].last_activity
              < proc[p].ret.last_activity

\* ------------------------------------------------- sessions that migrate
\* Two sessions are registered in one directory under one parent id; the
\* first is reactivated from either directory under either parent id;
\* sweeps with max_age_hours = 0 mark and delete what is old; lookups come
\* from both directories.  One call at a time, the clock advancing.
SpecMigrate ==
    Init /\ [][
        LET UMigrateReg ==
                [sids |-> Sids, traces |-> {"t1"}, cwds |-> {"/a"}, ppids |-> {100},
                 tools |-> {}, ages |-> {0}]
            UMigrate ==
                [sids |-> {"s1"}, traces |-> {"t1"}, cwds |-> Cwds, ppids |-> Ppids,
                 tools |-> {}, ages |-> {0}]
            NextMigrate ==
                \/ Tick
                \/ \E p \in SeqProcs :
                    \/ StartRegister(p, UMigrateReg) \/ StartReactivate(p, UMigrate)
                    \/ StartSweep(p, UMigrateReg) \/ StartFind(p, UMigrate)
                    \/ Flock(p) \/ Load(p) \/ RegSave(p) \/ IdxLock(p) \/ IdxLoad(p)
                    \/ RegIdxSave(p) \/ UpdateSave(p) \/ ReactSave(p) \/ ReactIdxSave(p)
                    \/ SweepRead(p) \/ SweepEnd(p) \/ SweepUnlink(p) \/ SweepIdxSave(p)
                    \/ SweepRemoveLock(p) \/ FindPpid(p) \/ FindLoad(p) \/ Exit(p)
        IN  NextMigrate
    ]_vars

\* The index lists s under cwd hash h although its record is of another
\* directory (or is gone).
StaleCwdEntry(s, h) ==
    /\ InSeq(s, index.cwd_to_sessions[h])
    /\ files[s] # Absent => files[s].cwd_hash # h

\* The index maps parent id pp to s although its record carries another
\* parent id (or is gone).
StalePpidEntry(s, pp) ==
    /\ index.ppid_to_session[pp] = s
    /\ files[s] # Absent => files[s].ppid # pp

\* This step is the index purge of a sweep's _remove_session(s).
SweepPurges(s) ==
    \E p \in ConcProcs :
        /\ proc[p].pc = "idx_save"
        /\ proc[p].name = "cleanup_stale_sessions"
        /\ proc[p].sid = s
        /\ proc'[p].pc = "sw_rmlock"

\* C32 as stated: a stale cwd or ppid entry of a session leaves the index
\* only in the step in which a sweep purges that session.
StaleEntriesOnlySwept ==
    [][\A s \in Sids :
        /\ \A h \in Hashes :
              (StaleCwdEntry(s, h) /\ ~InSeq(s, index'.cwd_to_sessions[h]))
                  => SweepPurges(s)
        /\ \A pp \in Ppids :
              (StalePpidEntry(s, pp) /\ index'.ppid_to_session[pp] # s)
                  => SweepPurges(s)]_vars

\* C32: reactivate_session's index update installs the caller's ppid and
\* cwd_hash mappings and leaves every other entry as it was; a stale cwd
\* entry of a session leaves the index only when a sweep purges that
\* session, a stale ppid entry then or when another session's registration
\* or reactivation under that parent id overwrites it.
StaleEntriesKept ==
    [][/\ \A p \in ConcProcs :
            (/\ proc[p].pc = "idx_save"
             /\ proc[p].name = "reactivate_session"
             /\ proc'[p].pc = "done")
            => /\ index'.ppid_to_session[proc[p].ppid] = proc[p].sid
               /\ InSeq(proc[p].sid, index'.cwd_to_sessions[HashCwd(proc[p].cwd)])
               /\ \A h \in Hashes, x \in AllSids :
                     InSeq(x, index.cwd_to_sessions[h])
                         => InSeq(x, index'.cwd_to_sessions[h])
               /\ \A pp \in Ppids \ {proc[p].ppid} :
                     index'.ppid_to_session[pp] = index.ppid_to_session[pp]
       /\ \A s \in Sids :
            /\ \A h \in Hashes :
                  (StaleCwdEntry(s, h) /\ ~InSeq(s, index'.cwd_to_sessions[h]))
                      => SweepPurges(s)
            /\ \A pp \in Ppids :
                  (StalePpidEntry(s, pp) /\ index'.ppid_to_session[pp] # s)
                      => \/ SweepPurges(s)
                         \/ index'.ppid_to_session[pp] \in Sids \ {s}]_vars

\* A lookup from the old directory returned the session that has moved to
\* the other one, its old parent id still mapped to it.
StaleEntriesKeptWitness ==
    \E p \in SeqProcs :
        /\ proc[p].pc = "done"
        /\ proc[p].name = "find_session_for_tool"
        /\ proc[p].cwd = "/a"
        /\ proc[p].ret # Absent
        /\ proc[p].ret.session_id = "s1"
        /\ files["s1"].cwd_hash = HashCwd("/b")
        /\ files["s1"].ppid = 200
        /\ StaleCwdEntry("s1", HashCwd("/a"))
        /\ StalePpidEntry("s1", 100)

\* C33: in every reachable state no cwd_to_sessions list holds a session id
\* twice, whatever interleaving of register_session, reactivate_session and
\* sweep removals produced it.
NoDuplicateCwdEntries ==
    \A h \in Hashes :
        \A i, j \in 1..Len(index.cwd_to_sessions[h]) :
            index.cwd_to_sessions[h][i] = index.cwd_to_sessions[h][j] => i = j

\* Two processes have finished a register_session and a successful
\* reactivate_session of the same session from the same directory, and the
\* session is listed there.
NoDuplicateCwdEntriesWitness ==
    \E p, q \in ConcProcs :
        /\ proc[p].pc = "done" /\ proc[p].name = "register_session"
        /\ proc[q].pc = "done" /\ proc[q].name = "reactivate_session"
        /\ proc[q].rtrace # "none"
        /\ proc[p].sid = proc[q].sid /\ proc[p].cwd = proc[q].cwd
        /\ InSeq(proc[p].sid, index.cwd_to_sessions[HashCwd(proc[p].cwd)])

\* ----------------------------------------------------------- user prompts
\* Sessions are registered, touched, stopped and given pending spans, and
\* prompts are logged for them, in processes with and without a backend
\* client and with a backend that can raise; one call at a time, the clock
\* advancing.
SpecPrompt ==
    Init /\ [][
        LET UPrompt ==
                [sids |-> Sids, traces |-> {"t1"}, cwds |-> {"/a"}, ppids |-> {100},
                 tools |-> {"Bash"}, ages |-> {}, enabled |-> BOOLEAN]
            NextPrompt ==
                \/ Tick
                \/ \E p \in SeqProcs :
                    \/ StartRegister(p, UPrompt) \/ StartUpdate(p, UPrompt)
                    \/ StartAdd(p, UPrompt)
                    \/ StartLogPrompt(p, UPrompt) \/ LupGet(p) \/ LupSpan(p) \/ LupUpdated(p)
                    \/ Flock(p) \/ Load(p) \/ RegSave(p) \/ IdxLock(p) \/ IdxLoad(p)
                    \/ RegIdxSave(p) \/ UpdateSave(p) \/ AddSave(p)
                    \/ CoordFails(p) \/ Exit(p)
        IN  NextPrompt
    ]_vars

\* C34: log_user_prompt looks the record up by id only.  For an unknown id
\* no step of it changes a record or the index or emits a span, and it
\* returns "noop".  For a known one the only write is the last_activity bump
\* of that record (status, trace_id and pending_spans stay), and a call that
\* returns without a failure, in a process with a client, has emitted exactly
\* one span and made that write.
LogPromptEffect ==
    [][\A p \in SeqProcs :
        (proc[p].op = "log_user_prompt" /\ proc'[p] # proc[p]) =>
          LET sid == proc[p].sid
              returns == proc'[p].op = "none"
          IN  /\ index' = index
              /\ \A x \in AllSids \ {sid} : files'[x] = files[x]
              /\ files[sid] = Absent =>
                    /\ files' = files
                    /\ proc'[p].log = <<>>
                    /\ returns => proc'[p].cret = Noop
              /\ files[sid] # Absent =>
                    /\ proc[p].pc = "upd_save" =>
                          files'[sid] = [files[sid] EXCEPT !.last_activity = now]
                    /\ proc[p].pc # "upd_save" => files'[sid] = files[sid]
                    /\ (returns /\ proc[p].enabled /\ ~proc'[p].failed) =>
                          /\ proc'[p].cret.kind = "span"
                          /\ proc'[p].log = <<"span">>
                          /\ proc[p].name = "update_session"
                          /\ proc[p].sess # Absent]_vars

\* A prompt was logged for a stopped session with a pending span, later than
\* its last activity: one span, the record's last_activity is the time of
\* the call, the session is still stopped and its span still pending.
LogPromptEffectWitness ==
    \E p \in SeqProcs :
        /\ proc[p].pc = "done"
        /\ proc[p].name = "log_user_prompt"
        /\ proc[p].cret.kind = "span"
        /\ proc[p].log = <<"span">>
        /\ files[proc[p].sid].status = "stopped"
        /\ files[proc[p].sid].pending_spans # <<>>
        /\ proc[p].sess.last_activity < files[proc[p].sid].last_activity
        /\ files[proc[p].sid].last_activity = now

\* ------------------------------------------------------------- sanitization
\* The sizes above which a field, a 'content' field and a whole result are
\* replaced or cut.
FieldThreshold == 500
ContentThreshold == 200
ResultThreshold == 1000

\* A value of a tool input or result, by its type and its size: the length
\* of a string, of json.dumps(value) for a dict or a list ("{}" and "[]"
\* have 2 characters), of str(value) for a number.
Values ==
    {[type |-> "str", len |-> n] : n \in {0, 200, 201, 500, 501, 1001}}
        \cup {[type |-> t, len |-> n] : t \in {"dict", "list"}, n \in {2, 500, 501, 1001}}
        \cup {[type |-> "num", len |-> 3], [type |-> "none", len |-> 0]}

\* The fields _sanitize_input keeps in part; 'command' stands for them.
AllowListed == {"command", "file_path", "pattern", "query", "url"}

\* Python's truth value of a value: None, "", {} and [] are false.
Truthy(v) ==
    /\ v.type # "none"
    /\ v.type = "str" => v.len > 0
    /\ v.type \in {"dict", "list"} => v.len > 2

\* The number of decimal digits of n.
Digits(n) == IF n < 10 THEN 1 ELSE IF n < 100 THEN 2 ELSE IF n < 1000 THEN 3 ELSE 4

\* What leaves the core for one value: how it was derived and its size.
Verbatim(v) == [kind |-> "verbatim", type |-> v.type, size |-> v.len]

\* f"[{n} chars]" and f"[{n} chars JSON]".
Placeholder(n) == [kind |-> "placeholder", type |-> "str", size |-> Digits(n) + 8]

\* str(value)[:500].
Cut(v) ==
    [kind |-> "cut", type |-> "str",
     size |-> IF v.len > FieldThreshold THEN FieldThreshold ELSE v.len]

NoValue == [kind |-> "verbatim", type |-> "none", size |-> 0]

\* One iteration of _sanitize_input's loop.
SanitizedInputField(key, v) ==
    IF key \in AllowListed THEN (IF Truthy(v) THEN Cut(v) ELSE NoValue)
    ELSE IF key = "content"
         THEN IF Truthy(v) /\ v.len > ContentThreshold
              THEN Placeholder(v.len) ELSE Verbatim(v)
    ELSE IF v.type = "str" /\ v.len > FieldThreshold THEN Placeholder(v.len)
    ELSE IF v.type \in {"dict", "list"}
         THEN IF v.len > FieldThreshold
              THEN [Placeholder(v.len) EXCEPT !.size = @ + 5] ELSE Verbatim(v)
    ELSE Verbatim(v)

\* One iteration of _sanitize_output's loop.
SanitizedOutputField(key, v) ==
    IF v.type = "str" /\ v.len > FieldThreshold THEN Placeholder(v.len)
    ELSE Verbatim(v)

\* A tool input or result: a dict of values, or a single value.
Dict(f) == [shape |-> "dict", fields |-> f]

Single(v) == [shape |-> "single", fields |-> [k \in {"raw"} |-> v]]

\* _sanitize_input(tool_name, tool_input).
SanitizeInput(tool_input) ==
    IF tool_input.shape # "dict"
    THEN Dict([k \in {"raw"} |-> Cut(tool_input.fields[k])])
    ELSE Dict([k \in DOMAIN tool_input.fields |->
                  SanitizedInputField(k, tool_input.fields[k])])

\* _sanitize_output(tool_name, tool_result).
SanitizeOutput(tool_result) ==
    IF tool_result.shape = "dict"
    THEN Dict([k \in DOMAIN tool_result.fields |->
                  SanitizedOutputField(k, tool_result.fields[k])])
    ELSE LET v == tool_result.fields["raw"]
         IN  Single(IF v.type = "none" THEN NoValue
                    ELSE IF v.len > ResultThreshold THEN Placeholder(v.len)
                    ELSE Verbatim(v))

CallSanitizeInput(p) ==
    /\ proc[p].pc = "call"
    /\ proc[p].name = "_sanitize_input"
    /\ Become(p, [proc[p] EXCEPT !.pc = "done",
                                 !.safe = SanitizeInput(proc[p].arg)])
    /\ UNCHANGED <<files, index, lockGen, now, nextSpan, prev>>

CallSanitizeOutput(p) ==
    /\ proc[p].pc = "call"
    /\ proc[p].name = "_sanitize_output"
    /\ Become(p, [proc[p] EXCEPT !.pc = "done",
                                 !.safe = SanitizeOutput(proc[p].arg)])
    /\ UNCHANGED <<files, index, lockGen, now, nextSpan, prev>>

\* One process is about to sanitize a payload: a dict of one or two fields
\* or a single value, as a tool input or as a tool result.
InitSanitize ==
    /\ files = [s \in AllSids |-> Absent]
    /\ index = EmptyIndex
    /\ lockGen = [s \in AllSids |-> 0]
    /\ now = 0
    /\ nextSpan = 1
    /\ prev = NoCall
    /\ \E name \in {"_sanitize_input", "_sanitize_output"},
          arg \in {Dict(f) : f \in UNION {[D -> Values] :
                      D \in {E \in SUBSET {"command", "content", "stdout"} :
                                Cardinality(E) \in {1, 2}}}}
                    \cup {Single(v) : v \in Values} :
         proc = [p \in ConcProcs |->
                   [pc |-> "call", name |-> name, op |-> "none", arg |-> arg,
                    safe |-> Dict(<<>>)]]

SpecSanitize ==
    InitSanitize /\ [][
        LET NextSanitize ==
                \E p \in SeqProcs : CallSanitizeInput(p) \/ CallSanitizeOutput(p)
        IN  NextSanitize
      ]_vars

\* C35: every value of a sanitized tool input or result is size-capped: no
\* value of a dict is larger than the field threshold, a string value longer
\* than the threshold has become a "[<n> chars]" placeholder, a dict or list
\* value whose serialization exceeds it a placeholder, an allow-listed field
\* is not kept beyond the threshold; for a result dict as for an input dict.
SanitizedCapped ==
    \A p \in SeqProcs :
        (proc[p].pc = "done" /\ proc[p].arg.shape = "dict") =>
            \A k \in DOMAIN proc[p].arg.fields :
                LET v == proc[p].arg.fields[k]
                    w == proc[p].safe.fields[k]
                IN  /\ w.size <= FieldThreshold
                    /\ (k \notin AllowListed /\ v.len > FieldThreshold) =>
                          w.kind = "placeholder"
                    /\ (k \in AllowListed /\ v.len > FieldThreshold) =>
                          w.kind \in {"cut", "placeholder"}

\* ------------------------------------------------- tool ends, racing
\* Four processes at once: one registers a session, gives it one pending
\* span and sweeps with max_age_hours = 0; one touches and stops the
\* session; two end one tool span each from the session's directory, after
\* the span was started.  The clock advances once, and sweeps come after
\* that, once the session is stopped.
CloseProcs == {"starter", "toucher", "ender1", "ender2"}

Enders == {"ender1", "ender2"}

InitClose ==
    /\ files = [s \in AllSids |-> Absent]
    /\ index = EmptyIndex
    /\ lockGen = [s \in AllSids |-> 0]
    /\ now = 0
    /\ nextSpan = 1
    /\ proc = [p \in CloseProcs |-> Idle]
    /\ prev = NoCall

SpecClose ==
    InitClose /\ [][
        LET UClose ==
                [sids |-> {"s1"}, traces |-> {"t1"}, cwds |-> {"/a"}, ppids |-> {100},
                 tools |-> {"Bash"}, ages |-> {0}, enabled |-> {TRUE}]
            NextClose ==
                \/ now < LiveTime /\ Tick
                \/ nextSpan = 1 /\ files["s1"] = Absent /\ StartRegister("starter", UClose)
                \/ nextSpan = 1 /\ StartAdd("starter", UClose)
                \/ now = LiveTime /\ files["s1"].status = "stopped"
                      /\ StartSweep("starter", UClose)
                \/ StartUpdate("toucher", UClose)
                \/ nextSpan > 1 /\ StartEndToolSpan("ender1", UClose)
                \/ ~IsIdle("ender1") /\ StartEndToolSpan("ender2", UClose)
                \/ \E p \in CloseProcs \ Enders : Exit(p)
                \/ \E p \in CloseProcs :
                    \/ EtsFound(p) \/ EtsPopped(p) \/ EtsEnd(p)
                    \/ Flock(p) \/ Load(p) \/ RegSave(p) \/ IdxLock(p) \/ IdxLoad(p)
                    \/ RegIdxSave(p) \/ UpdateSave(p) \/ AddSave(p) \/ PopSave(p)
                    \/ SweepRead(p) \/ SweepEnd(p) \/ SweepUnlink(p) \/ SweepIdxSave(p)
                    \/ SweepRemoveLock(p) \/ FindLoad(p)
        IN  NextClose
      ]_vars

\* The span process p has obtained from pop_pending_span in its
\* end_tool_span (and closes, or has closed, at the backend).
Obtained(p) ==
    IF "end_tool_span" \in {proc[p].op, proc[p].name} THEN proc[p].rspan
    ELSE NoSpan

\* C36: no two end_tool_span calls obtain the same span from
\* pop_pending_span, so no backend span is closed twice.
NoSpanPoppedTwice ==
    \A p, q \in Enders :
        (p # q /\ Obtained(p) # NoSpan) => Obtained(p) # Obtained(q)

\* ------------------------------------------------- tool starts, racing
\* One process starts tool spans from the session's directory while another
\* registers, touches and stops the session and sweeps with
\* max_age_hours = 0, interleaved at every step, the clock advancing.
SpecTrack ==
    Init /\ [][
        LET UTrack ==
                [sids |-> {"s1"}, traces |-> {"t1"}, cwds |-> {"/a"}, ppids |-> {100},
                 tools |-> {"Bash"}, ages |-> {0}, enabled |-> {TRUE}]
            NextTrack ==
                \/ Tick
                \/ StartToolSpan(1, UTrack)
                \/ StartRegister(2, UTrack) \/ StartUpdate(2, UTrack) \/ StartSweep(2, UTrack)
                \/ \E p \in ConcProcs :
                    \/ StsFound(p) \/ StsSpan(p) \/ StsAdded(p)
                    \/ Flock(p) \/ Load(p) \/ RegSave(p) \/ IdxLock(p) \/ IdxLoad(p)
                    \/ RegIdxSave(p) \/ UpdateSave(p) \/ AddSave(p)
                    \/ SweepRead(p) \/ SweepEnd(p) \/ SweepUnlink(p) \/ SweepIdxSave(p)
                    \/ SweepRemoveLock(p) \/ FindLoad(p) \/ Exit(p)
        IN  NextTrack
    ]_vars

\* Span id n is among the pending spans of session record s.
Pending(n, s) ==
    \E i \in 1..Len(s.pending_spans) : s.pending_spans[i].span_id = n

\* C37: the span that start_tool_span has opened and goes on to return is
\* in the pending_spans of the session it was correlated to once its
\* add_pending_span has run, whatever other processes did since its lookup.
OpenedSpanTracked ==
    [][\A p \in ConcProcs :
        (/\ proc[p].op = "start_tool_span"
         /\ proc[p].pc = "add_save"
         /\ proc'[p].pc = "done")
        => Pending(proc[p].span, files'[proc[p].sid])]_vars

\* ------------------------------------------- tool spans from a stranger parent
\* Two sessions are registered once each in one directory under one parent
\* id and stay active; prompts are logged for either; once both exist, tool
\* spans are started and ended from that directory under a parent id that no
\* record carries.  One call at a time, the clock advancing.
\* When the process exits, the last tool call stays remembered across the
\* calls that carry a session id.
SpecRoute ==
    Init /\ [][
        LET URoute ==
                [sids |-> Sids, traces |-> {"t1"}, cwds |-> {"/a"}, ppids |-> {100},
                 tools |-> {}, ages |-> {}, enabled |-> {TRUE}]
            URouteTool ==
                [sids |-> {}, traces |-> {}, cwds |-> {"/a"}, ppids |-> {200},
                 tools |-> {"Bash"}, ages |-> {}, enabled |-> {TRUE}]
            BothActive == \A s \in Sids : s \in ActiveListed("/a")
            ExitTool(p) ==
                /\ proc[p].pc = "done"
                /\ proc[p].op = "none"
                /\ Become(p, Idle)
                /\ prev' = IF proc[p].name \in {"start_tool_span", "end_tool_span"}
                           THEN CallOf(proc[p]) ELSE prev
                /\ UNCHANGED <<files, index, lockGen, now, nextSpan>>
            NextRoute ==
                \/ Tick
                \/ \E p \in SeqProcs :
                    \/ \E s \in Sids :
                         files[s] = Absent /\ StartRegister(p, [URoute EXCEPT !.sids = {s}])
                    \/ StartLogPrompt(p, URoute) \/ LupGet(p) \/ LupSpan(p) \/ LupUpdated(p)
                    \/ BothActive /\ StartToolSpan(p, URouteTool)
                    \/ StsFound(p) \/ StsSpan(p) \/ StsAdded(p)
                    \/ BothActive /\ StartEndToolSpan(p, URouteTool)
                    \/ EtsFound(p) \/ EtsPopped(p) \/ EtsEnd(p)
                    \/ Flock(p) \/ Load(p) \/ RegSave(p) \/ IdxLock(p) \/ IdxLoad(p)
                    \/ RegIdxSave(p) \/ UpdateSave(p) \/ AddSave(p) \/ PopSave(p)
                    \/ FindLoad(p) \/ ExitTool(p)
        IN  NextRoute
    ]_vars

\* The lookup of an end_tool_span has returned, and the tool call before it
\* was a start_tool_span from the same context that returned a live span.
EndAfterStart(p) ==
    /\ Back(p, "end_tool_span", "find_session_for_tool")
    /\ prev.name = "start_tool_span"
    /\ prev.cret.kind = "span"
    /\ prev.cwd = proc[p].cwd
    /\ prev.ppid = proc[p].ppid

\* C38 as stated: the end is correlated to the session of the start,
\* whatever the other sessions did in between.
EndRoutedAsStart ==
    \A p \in SeqProcs :
        EndAfterStart(p) => proc[p].ret.session_id = prev.ret.session_id

\* C38: the end is correlated to the active session of the directory with
\* the latest last_activity when it runs: to the session of the start when
\* that one's last_activity is later than every other's, and otherwise only
\* to a session whose last_activity is at least as late.
EndRoutedByActivity ==
    \A p \in SeqProcs :
        EndAfterStart(p) =>
            LET S == prev.ret.session_id
                R == proc[p].ret.session_id
            IN  /\ R \in ActiveListed(proc[p].cwd)
                /\ \A o \in ActiveListed(proc[p].cwd) :
                      files[o].last_activity <= files[R].last_activity
                /\ (\A o \in ActiveListed(proc[p].cwd) \ {S} :
                        files[o].last_activity < files[S].last_activity)
                       => R = S
                /\ R # S => files[R].last_activity >= files[S].last_activity

\* The end was routed to the session of the start, which is listed second
\* and was active last.
EndRoutedByActivityWitness ==
    \E p \in SeqProcs :
        /\ EndAfterStart(p)
        /\ proc[p].ret.session_id = prev.ret.session_id
        /\ prev.ret.session_id = index.cwd_to_sessions[HashCwd("/a")][2]
        /\ Pending(prev.span, files[prev.ret.session_id])

\* ------------------------------------------------- sweeps, racing, long run
\* Two processes register, stop and reactivate one session and sweep with
\* max_age_hours = 1, interleaved at every step, over a longer time.  The
\* session is never merely touched, so a stale record's last_activity is the
\* time at which a sweep marked it.
\* Time passes up to SweepTime.
SpecStale ==
    Init /\ [][
        LET UStale ==
                [sids |-> {"s1"}, traces |-> {"t1"}, cwds |-> {"/a"}, ppids |-> {100},
                 tools |-> {}, ages |-> {1}]
            TickLong ==
                /\ now < SweepTime
                /\ now' = now + 1
                /\ UNCHANGED <<files, index, lockGen, nextSpan, proc, prev>>
            NextStale ==
                \/ TickLong
                \/ \E p \in ConcProcs :
                    \/ StartRegister(p, UStale)
                    \/ StartUpdate(p, UStale) /\ proc'[p].name = "mark_session_stopped"
                    \/ StartReactivate(p, UStale) \/ StartSweep(p, UStale)
                    \/ Flock(p) \/ Load(p) \/ RegSave(p) \/ IdxLock(p) \/ IdxLoad(p)
                    \/ RegIdxSave(p) \/ UpdateSave(p) \/ ReactSave(p) \/ ReactIdxSave(p)
                    \/ SweepRead(p) \/ SweepEnd(p) \/ SweepUnlink(p) \/ SweepIdxSave(p)
                    \/ SweepRemoveLock(p) \/ Exit(p)
        IN  NextStale
    ]_vars

\* C39: a record that a sweep marked stale at time t (it is stale and its
\* last_activity is t) is not deleted by a sweep with the same
\* max_age_hours before t + 2 * max_age_hours.
StaleOutlivesTwiceMaxAge ==
    [][\A p \in ConcProcs :
        (/\ proc[p].pc = "sw_unlink"
         /\ proc'[p].pc = "idx_lock"
         /\ files[proc[p].sid].status = "stale")
        => now > files[proc[p].sid].last_activity + 2 * proc[p].maxAge]_vars

\* ------------------------------------------------- calls on unknown sessions
\* One session is registered; both it and a session that never was are
\* touched, stopped, reactivated and given and relieved of pending spans.
\* One call at a time, the clock advancing.
SpecUnknown ==
    Init /\ [][
        LET UKnown ==
                [sids |-> {"s1"}, traces |-> {"t1"}, cwds |-> {"/a"}, ppids |-> {100},
                 tools |-> {"Bash"}, ages |-> {}]
            UUnknown ==
                [sids |-> Sids, traces |-> {"t1"}, cwds |-> Cwds, ppids |-> Ppids,
                 tools |-> {"Bash"}, ages |-> {}]
            NextUnknown ==
                \/ Tick
                \/ \E p \in SeqProcs :
                    \/ StartRegister(p, UKnown)
                    \/ StartUpdate(p, UUnknown) \/ StartAdd(p, UUnknown)
                    \/ StartPop(p, UUnknown) \/ StartReactivate(p, UUnknown)
                    \/ Flock(p) \/ Load(p) \/ RegSave(p) \/ IdxLock(p) \/ IdxLoad(p)
                    \/ RegIdxSave(p) \/ UpdateSave(p) \/ AddSave(p) \/ PopSave(p)
                    \/ ReactSave(p) \/ ReactIdxSave(p) \/ Exit(p)
        IN  NextUnknown
    ]_vars

\* C40: no step of update_session, mark_session_stopped, add_pending_span,
\* pop_pending_span or reactivate_session called for a session id without
\* a stored record changes a record file or the index, and
\* reactivate_session and pop_pending_span return absent.
OnlyRegisterCreates ==
    [][\A p \in SeqProcs :
        (/\ proc[p].name \in {"update_session", "mark_session_stopped",
                               "add_pending_span", "pop_pending_span",
                               "reactivate_session"}
         /\ files[proc[p].sid] = Absent
         /\ proc'[p] # proc[p])
        => /\ files' = files
           /\ index' = index
           /\ proc'[p].pc = "done" =>
                 proc'[p].rtrace = "none" /\ proc'[p].rspan = NoSpan]_vars

\* reactivate_session has returned absent for a session id without a record
\* while another session is stored and listed.
OnlyRegisterCreatesWitness ==
    \E p \in SeqProcs :
        /\ proc[p].pc = "done"
        /\ proc[p].name = "reactivate_session"
        /\ proc[p].sid = "s2"
        /\ proc[p].rtrace = "none"
        /\ files["s2"] = Absent
        /\ index.ppid_to_session[proc[p].ppid] # "s2"
        /\ ~InSeq("s2", index.cwd_to_sessions[HashCwd(proc[p].cwd)])
        /\ files["s1"] # Absent
        /\ InSeq("s1", index.cwd_to_sessions[HashCwd("/a")])
====
